---- MODULE Spec2Model ----
(***************************************************************************)
(* Helios portal: the token deployer's transaction lifecycle               *)
(* (TokenDeployerInterface), the useCreateToken hook and the extraction of *)
(* the deployed token's address from a transaction receipt.                *)
(*                                                                         *)
(* JavaScript strings are sequences of one-character strings, so that      *)
(* trim, slice, toLowerCase and the regular expressions of the source are  *)
(* computed character by character.                                        *)
(***************************************************************************)
EXTENDS Integers, Sequences, FiniteSets, TLC

\* ------------------------------------------------------------------------
\* Bounds of the model
\* ------------------------------------------------------------------------

\* longest receipt (number of logs) the extraction is applied to
MaxLogs == 3

\* ------------------------------------------------------------------------
\* Strings
\* ------------------------------------------------------------------------

None == "none"

\* undefined / absent, for a transaction hash (hashes are not 0)
NoHash == 0

Rep(c, n) == [i \in 1..n |-> c]

Digits == {"0", "1", "2", "3", "4", "5", "6", "7", "8", "9"}

LowerHexLetters == {"a", "b", "c", "d", "e", "f"}

UpperHexLetters == {"A", "B", "C", "D", "E", "F"}

\* the character class [a-fA-F0-9]
HexChars == Digits \cup LowerHexLetters \cup UpperHexLetters

AllHex(s) == \A i \in 1..Len(s) : s[i] \in HexChars

\* String.prototype.toLowerCase, on the characters the model uses
LowerChar(c) ==
    CASE c = "A" -> "a" [] c = "B" -> "b" [] c = "C" -> "c"
      [] c = "D" -> "d" [] c = "E" -> "e" [] c = "F" -> "f"
      [] c = "X" -> "x" [] c = "T" -> "t" [] c = "U" -> "u"
      [] OTHER -> c

toLowerCase(s) == [i \in 1..Len(s) |-> LowerChar(s[i])]

\* String.prototype.slice(-n): the last n characters, the whole string when
\* it is shorter
SliceLast(s, n) == IF Len(s) <= n THEN s ELSE SubSeq(s, Len(s) - n + 1, Len(s))

LowerLetters ==
    {"a", "b", "c", "d", "e", "f", "g", "h", "i", "j", "k", "l", "m",
     "n", "o", "p", "q", "r", "s", "t", "u", "v", "w", "x", "y", "z"}

UpperLetters ==
    {"A", "B", "C", "D", "E", "F", "G", "H", "I", "J", "K", "L", "M",
     "N", "O", "P", "Q", "R", "S", "T", "U", "V", "W", "X", "Y", "Z"}

\* String.prototype.trim (the only white space the model uses is " ")
Trim(s) ==
    LET solid == {i \in 1..Len(s) : s[i] # " "} IN
    IF solid = {} THEN <<>>
    ELSE SubSeq(s, CHOOSE i \in solid : \A j \in solid : i <= j,
                   CHOOSE i \in solid : \A j \in solid : i >= j)

\* /^[a-zA-Z0-9]+$/
MatchesSymbolRegex(s) ==
    s # <<>> /\ \A i \in 1..Len(s) : s[i] \in LowerLetters \cup UpperLetters \cup Digits

\* /^[a-z0-9_]+$/
MatchesDenomRegex(s) ==
    s # <<>> /\ \A i \in 1..Len(s) : s[i] \in LowerLetters \cup Digits \cup {"_"}

DigitValue(c) ==
    CASE c = "0" -> 0 [] c = "1" -> 1 [] c = "2" -> 2 [] c = "3" -> 3 [] c = "4" -> 4
      [] c = "5" -> 5 [] c = "6" -> 6 [] c = "7" -> 7 [] c = "8" -> 8 [] c = "9" -> 9

DigitChar(n) ==
    CASE n = 0 -> "0" [] n = 1 -> "1" [] n = 2 -> "2" [] n = 3 -> "3" [] n = 4 -> "4"
      [] n = 5 -> "5" [] n = 6 -> "6" [] n = 7 -> "7" [] n = 8 -> "8" [] n = 9 -> "9"

AllDigits(s) == \A i \in 1..Len(s) : s[i] \in Digits

AllZeros(s) == \A i \in 1..Len(s) : s[i] = "0"

\* a string of digits without its leading zeros, <<"0">> for zero
Canonical(s) ==
    LET solid == {i \in 1..Len(s) : s[i] # "0"} IN
    IF solid = {} THEN <<"0">>
    ELSE SubSeq(s, CHOOSE i \in solid : \A j \in solid : i <= j, Len(s))

\* the value of at most three digits (larger values are only compared by length)
RECURSIVE SmallValue(_)
SmallValue(s) ==
    IF s = <<>> THEN 0 ELSE 10 * SmallValue(SubSeq(s, 1, Len(s) - 1)) + DigitValue(s[Len(s)])

\* the text before and after the first "." (the second part <<>> without one)
DotAt(s) ==
    LET dots == {i \in 1..Len(s) : s[i] = "."} IN
    IF dots = {} THEN 0 ELSE CHOOSE i \in dots : \A j \in dots : i <= j

BeforeDot(s) == IF DotAt(s) = 0 THEN s ELSE SubSeq(s, 1, DotAt(s) - 1)

AfterDot(s) == IF DotAt(s) = 0 THEN <<>> ELSE SubSeq(s, DotAt(s) + 1, Len(s))

\* Number(s) for strings without exponent, hexadecimal prefix or "Infinity":
\* white space is trimmed, the empty string is 0, an optional sign is followed
\* by digits with at most one "." and at least one digit.  The number is kept
\* as its sign, integer digits and fraction digits.
Number(s) ==
    LET t == Trim(s)
        signed == t # <<>> /\ t[1] \in {"-", "+"}
        body == IF signed THEN Tail(t) ELSE t
        ip == BeforeDot(body)
        fp == AfterDot(body)
    IN IF t = <<>>
       THEN [nan |-> FALSE, neg |-> FALSE, ip |-> <<"0">>, fp |-> <<>>]
       ELSE IF AllDigits(ip) /\ AllDigits(fp) /\ Len(ip) + Len(fp) > 0
            THEN [nan |-> FALSE, neg |-> (t[1] = "-"), ip |-> Canonical(ip), fp |-> fp]
            ELSE [nan |-> TRUE, neg |-> FALSE, ip |-> <<"0">>, fp |-> <<>>]

isNaN(n) == n.nan

IsZeroNumber(n) == ~n.nan /\ AllZeros(n.ip) /\ AllZeros(n.fp)

\* n < 0
Negative(n) == ~n.nan /\ n.neg /\ ~IsZeroNumber(n)

\* n <= 0
NotPositive(n) == ~n.nan /\ (n.neg \/ IsZeroNumber(n))

\* n > k, for a natural k below 1000
GreaterThan(n, k) ==
    /\ ~n.nan
    /\ ~n.neg
    /\ \/ Len(n.ip) > 3
       \/ Len(n.ip) <= 3 /\ SmallValue(n.ip) > k
       \/ Len(n.ip) <= 3 /\ SmallValue(n.ip) = k /\ ~AllZeros(n.fp)

\* Number.isInteger
IsInteger(n) == ~n.nan /\ AllZeros(n.fp)

\* parseInt(s) for decimal strings: leading white space, an optional sign and
\* the longest run of digits; NaN without a digit.  Used on the decimals
\* field, whose integer part has at most three digits in the model.
parseInt(s) ==
    LET solid == {i \in 1..Len(s) : s[i] # " "}
        t == IF solid = {} THEN <<>>
             ELSE SubSeq(s, CHOOSE i \in solid : \A j \in solid : i <= j, Len(s))
        signed == t # <<>> /\ t[1] \in {"-", "+"}
        body == IF signed THEN Tail(t) ELSE t
        stops == {i \in 1..Len(body) : body[i] \notin Digits}
        run == IF stops = {} THEN body
               ELSE SubSeq(body, 1, (CHOOSE i \in stops : \A j \in stops : i <= j) - 1)
    IN IF run = <<>> THEN [nan |-> TRUE, value |-> 0]
       ELSE [nan |-> FALSE,
             value |-> IF signed /\ t[1] = "-" THEN 0 - SmallValue(run) ELSE SmallValue(run)]

\* parseInt(s) || 18
parseIntOr18(s) ==
    IF parseInt(s).nan \/ parseInt(s).value = 0 THEN 18 ELSE parseInt(s).value

\* a string of digits plus one
RECURSIVE Increment(_)
Increment(s) ==
    IF s = <<>> THEN <<"1">>
    ELSE IF s[Len(s)] = "9"
         THEN Append(Increment(SubSeq(s, 1, Len(s) - 1)), "0")
         ELSE Append(SubSeq(s, 1, Len(s) - 1), DigitChar(DigitValue(s[Len(s)]) + 1))

StripTrailingZeros(s) ==
    LET solid == {i \in 1..Len(s) : s[i] # "0"} IN
    IF solid = {} THEN <<>>
    ELSE SubSeq(s, 1, CHOOSE i \in solid : \A j \in solid : i >= j)

PadStart(s, n) == IF Len(s) >= n THEN s ELSE Rep("0", n - Len(s)) \o s

PadEnd(s, n) == IF Len(s) >= n THEN s ELSE s \o Rep("0", n - Len(s))

\* viem parseUnits(value, decimals): throws unless value matches
\* /^(-?)([0-9]*)\.?([0-9]*)$/; otherwise the integer and fraction digits are
\* joined, the fraction padded to `decimals` digits, or rounded half up when
\* it is longer.  The result is an unbounded integer (BigInt): no magnitude
\* makes it throw.
parseUnitsThrows(value) ==
    LET body == IF value # <<>> /\ value[1] = "-" THEN Tail(value) ELSE value
    IN ~(AllDigits(BeforeDot(body)) /\ AllDigits(AfterDot(body)))

parseUnits(value, decimals) ==
    LET negative == value # <<>> /\ value[1] = "-"
        body == IF negative THEN Tail(value) ELSE value
        integer == BeforeDot(body)
        fraction == StripTrailingZeros(IF DotAt(body) = 0 THEN <<"0">> ELSE AfterDot(body))
        up == fraction # <<>> /\ DigitValue(fraction[1]) >= 5
        left == SubSeq(fraction, 1, decimals - 1)
        unit == DigitValue(fraction[decimals])
        rounded == unit + (IF DigitValue(fraction[decimals + 1]) >= 5 THEN 1 ELSE 0)
        cut == IF rounded > 9
               THEN PadStart(Increment(Canonical(left)) \o <<"0">>, Len(left) + 1)
               ELSE Append(left, DigitChar(rounded))
        digits ==
            IF decimals = 0
            THEN (IF up THEN Increment(Canonical(integer)) ELSE integer)
            ELSE IF Len(fraction) > decimals
                 THEN IF Len(cut) > decimals
                      THEN Increment(Canonical(integer)) \o SubSeq(cut, 2, decimals + 1)
                      ELSE integer \o SubSeq(cut, 1, decimals)
                 ELSE integer \o PadEnd(fraction, decimals)
    IN [neg |-> negative /\ ~AllZeros(digits), digits |-> Canonical(digits)]

\* ------------------------------------------------------------------------
\* Receipts and address extraction
\* ------------------------------------------------------------------------

\* the precompile that creates the token (constant/helios-contracts)
PRECOMPILE_CONTRACT_ADDRESS == <<"0", "x">> \o Rep("0", 37) \o <<"8", "0", "6">>

\* the 32-byte zero word the fallback rule compares topics[1] with
ZeroTopic == <<"0", "x">> \o Rep("0", 64)

\* mutant: only the length of the 40 characters is tested
IsHex40_lengthOnly(s) == Len(s) = 40

\* /^[a-fA-F0-9]{40}$/
IsHex40(s) == Len(s) = 40 /\ AllHex(s)

\* /^0x[a-fA-F0-9]{40}$/
IsAddress(s) ==
    /\ Len(s) = 42
    /\ s[1] = "0"
    /\ s[2] = "x"
    /\ AllHex(SubSeq(s, 3, 42))

\* a property the log entry does not have
Undefined == <<"undefined">>

\* the value that stands for an exception leaving the function
Thrown == <<"!">>

\* receipt.logs.find(log => log.address.toLowerCase() ===
\*                          PRECOMPILE_CONTRACT_ADDRESS.toLowerCase()):
\* the index of the first such log, 0 when there is none
createLogIndex(logs) ==
    LET hits == {i \in 1..Len(logs) :
                    toLowerCase(logs[i].address) = toLowerCase(PRECOMPILE_CONTRACT_ADDRESS)}
    IN IF hits = {} THEN 0 ELSE CHOOSE i \in hits : \A j \in hits : i <= j

\* mutant: the first 40 characters after "0x" instead of the last 40
addressHexOf_leading(data) ==
    IF Len(data) <= 42 THEN SubSeq(data, 3, Len(data)) ELSE SubSeq(data, 3, 42)

\* createLog.data.slice(-40)
addressHexOf(data) == SliceLast(data, 40)

\* the primary rule: the address taken from the data of the precompile's log,
\* <<>> when the rule does not apply
primaryAddress(logs) ==
    LET i == createLogIndex(logs) IN
    IF /\ i # 0
       /\ logs[i].data # Undefined
       /\ logs[i].data # <<>>
       /\ logs[i].data # <<"0", "x">>
    THEN LET addressHex == addressHexOf(logs[i].data) IN
         IF Len(addressHex) = 40 /\ IsHex40(addressHex)
         THEN <<"0", "x">> \o addressHex
         ELSE IF Len(logs[i].data) = 66 /\ IsHex40(addressHexOf(logs[i].data))
              THEN <<"0", "x">> \o addressHexOf(logs[i].data)
              ELSE <<>>
    ELSE <<>>

\* mutant: the 'to' topic compared with zero instead of the 'from' topic
isMintLog_toTopic(log) ==
    /\ Len(log.topics) = 3
    /\ IsAddress(log.address)
    /\ log.topics[3] = ZeroTopic

\* the test the fallback loop applies to each log
isMintLog(log) ==
    /\ Len(log.topics) = 3
    /\ IsAddress(log.address)
    /\ log.topics[2] = ZeroTopic

\* the fallback rule: the emitting address of the first mint-shaped log,
\* <<>> when there is none
fallbackAddress(logs) ==
    LET hits == {i \in 1..Len(logs) : isMintLog(logs[i])}
    IN IF hits = {} THEN <<>>
       ELSE logs[CHOOSE i \in hits : \A j \in hits : i <= j].address

\* log.address.toLowerCase() raises a TypeError when find reaches a log
\* without an address before it has found the precompile's log
findThrows(logs) ==
    \E i \in 1..Len(logs) :
        /\ logs[i].address = Undefined
        /\ createLogIndex(logs) \in {0} \cup (i + 1)..Len(logs)

\* log.topics.length raises a TypeError on a log without topics, and
\* log.address.match on a log with three topics and no address
fallbackTestThrows(log) ==
    \/ log.topics = Undefined
    \/ Len(log.topics) = 3 /\ log.address = Undefined

\* the fallback loop reaches a log whose test raises before it has returned
fallbackThrows(logs) ==
    \E i \in 1..Len(logs) :
        /\ fallbackTestThrows(logs[i])
        /\ \A j \in 1..(i - 1) : ~isMintLog(logs[j])

\* mutant: the exception leaves the function
onExtractionError_rethrow == Thrown

\* catch (error) { ...; return "" }
onExtractionError == <<>>

\* mutant: the fallback rule is tried before the primary rule
extractTokenAddressFromReceipt_fallbackFirst(logs) ==
    IF findThrows(logs) THEN onExtractionError
    ELSE IF fallbackThrows(logs) THEN onExtractionError
    ELSE IF fallbackAddress(logs) # <<>> THEN fallbackAddress(logs)
    ELSE primaryAddress(logs)

\* useCreateToken.extractTokenAddressFromReceipt
extractTokenAddressFromReceipt(logs) ==
    IF findThrows(logs) THEN onExtractionError
    ELSE IF primaryAddress(logs) # <<>> THEN primaryAddress(logs)
    ELSE IF fallbackThrows(logs) THEN onExtractionError
    ELSE fallbackAddress(logs)

\* ------------------------------------------------------------------------
\* Receipts the extraction is checked on
\* ------------------------------------------------------------------------

PrecompileUpper == <<"0", "X">> \o Rep("0", 37) \o <<"8", "0", "6">>

TokenA == <<"0", "x">> \o Rep("a", 40)

TokenB == <<"0", "x">> \o Rep("B", 40)

\* 41 characters after 0x, the last one no hexadecimal digit
BadAddress == <<"0", "x">> \o Rep("a", 39) \o <<"g">>

SigTopic == <<"0", "x">> \o Rep("d", 64)

OtherTopic == <<"0", "x">> \o Rep("1", 64)

MintTopics == <<SigTopic, ZeroTopic, OtherTopic>>

BurnTopics == <<SigTopic, OtherTopic, ZeroTopic>>

\* a 32-byte word: 24 zero characters and the 40 characters of an address
PaddedData(hex40) == <<"0", "x">> \o Rep("0", 24) \o hex40

Log(a, t, d) == [address |-> a, topics |-> t, data |-> d]

LogInputs ==
    { Log(PRECOMPILE_CONTRACT_ADDRESS, <<>>, PaddedData(Rep("c", 40))),
      Log(PrecompileUpper, <<>>, PaddedData(Rep("E", 40))),
      Log(PRECOMPILE_CONTRACT_ADDRESS, <<>>, <<"0", "x">>),
      Log(PRECOMPILE_CONTRACT_ADDRESS, <<>>, <<>>),
      Log(PRECOMPILE_CONTRACT_ADDRESS, <<>>, PaddedData(Rep("z", 40))),
      Log(PRECOMPILE_CONTRACT_ADDRESS, <<>>, <<"0", "x">> \o Rep("1", 38)),
      Log(PRECOMPILE_CONTRACT_ADDRESS, MintTopics, <<"0", "x">>),
      Log(TokenA, MintTopics, <<"0", "x">>),
      Log(TokenB, MintTopics, PaddedData(Rep("5", 40))),
      Log(TokenA, BurnTopics, <<"0", "x">>),
      Log(TokenA, <<SigTopic, ZeroTopic>>, <<"0", "x">>),
      Log(BadAddress, MintTopics, <<"0", "x">>) }

\* log entries that lack a property, and four well-formed ones
MalformedLogInputs ==
    { Log(Undefined, MintTopics, <<"0", "x">>),
      Log(TokenA, Undefined, <<"0", "x">>),
      Log(PRECOMPILE_CONTRACT_ADDRESS, <<>>, Undefined),
      Log(Undefined, Undefined, Undefined),
      Log(PRECOMPILE_CONTRACT_ADDRESS, <<>>, PaddedData(Rep("c", 40))),
      Log(PRECOMPILE_CONTRACT_ADDRESS, <<>>, <<"0", "x">>),
      Log(PRECOMPILE_CONTRACT_ADDRESS, <<>>, <<>>),
      Log(TokenA, MintTopics, <<"0", "x">>) }

RECURSIVE SeqsUpTo(_, _)
SeqsUpTo(S, n) ==
    IF n = 0 THEN {<<>>}
    ELSE LET shorter == SeqsUpTo(S, n - 1)
         IN shorter \cup {Append(s, x) : s \in {t \in shorter : Len(t) = n - 1}, x \in S}

ReceiptInputs == SeqsUpTo(LogInputs, MaxLogs)

MalformedReceiptInputs == SeqsUpTo(MalformedLogInputs, MaxLogs)

NotRun == <<"?">>

\* ------------------------------------------------------------------------
\* The token form and its validation
\* ------------------------------------------------------------------------

\* chain id of the Helios network (config/app)
HELIOS_NETWORK_ID == 42000

\* encoded-size ceiling of the logo
MaxLogoLength == 100000

\* 2^256 - 1, the largest amount a uint256 argument encodes
UINT256_MAX_DIGITS ==
    <<"1","1","5","7","9","2","0","8","9","2","3","7","3","1","6","1","9","5","4","2",
      "3","5","7","0","9","8","5","0","0","8","6","8","7","9","0","7","8","5","3","2",
      "6","9","9","8","4","6","6","5","6","4","0","5","6","4","0","3","9","4","5","7",
      "5","8","4","0","0","7","9","1","3","1","2","9","6","3","9","9","3","5">>

\* a <= b for canonical strings of digits
DigitsLeq(a, b) ==
    \/ Len(a) < Len(b)
    \/ /\ Len(a) = Len(b)
       /\ \/ a = b
          \/ \E i \in 1..Len(a) :
                /\ DigitValue(a[i]) < DigitValue(b[i])
                /\ \A j \in 1..(i - 1) : a[j] = b[j]

\* the state of the form before anything is typed.  logoBase64 is kept as
\* the length of the string: the code reads its length and whether it is
\* empty, and copies it.
InitialForm ==
    [name |-> <<>>, symbol |-> <<>>, denom |-> <<>>, totalSupply |-> <<>>,
     decimals |-> <<"1", "8">>, logoBase64 |-> 0, inProgress |-> FALSE]

\* the decimals check of validateForm
decimalsInvalid(d) ==
    \/ Trim(d) = <<>>
    \/ isNaN(Number(d))
    \/ Negative(Number(d))
    \/ GreaterThan(Number(d), 18)
    \/ ~IsInteger(Number(d))

\* validateForm / validateTokenParams: the message of the first check that
\* fails, None when all pass
validationError(f) ==
    IF Trim(f.name) = <<>> THEN "Token name is required"
    ELSE IF Trim(f.symbol) = <<>> THEN "Token symbol is required"
    ELSE IF ~MatchesSymbolRegex(Trim(f.symbol))
         THEN "Token symbol must contain only letters and numbers"
    ELSE IF Trim(f.denom) = <<>> THEN "Token denomination is required"
    ELSE IF ~MatchesDenomRegex(Trim(f.denom))
         THEN "Denomination must contain only lowercase letters, numbers, and underscores"
    ELSE IF Trim(f.totalSupply) = <<>> \/ isNaN(Number(f.totalSupply))
                \/ NotPositive(Number(f.totalSupply))
         THEN "Total supply must be a valid number greater than 0"
    ELSE IF parseUnitsThrows(f.totalSupply) THEN "Total supply value is too large or invalid"
    ELSE IF decimalsInvalid(f.decimals) THEN "Decimals must be an integer between 0 and 18"
    ELSE IF f.logoBase64 # 0 /\ f.logoBase64 > MaxLogoLength
         THEN "Logo image is too large. Please use a smaller image"
    ELSE None

validateForm(f) == validationError(f) = None

validateTokenParams(p) == validationError(p) = None

\* Math.min(Math.max(parseInt(decimals) || 18, 0), 18)
clampDecimals(d) ==
    IF parseIntOr18(d) < 0 THEN 0 ELSE IF parseIntOr18(d) > 18 THEN 18 ELSE parseIntOr18(d)

\* the arguments handed to createErc20
createErc20Args(f) ==
    [name |-> Trim(f.name), symbol |-> Trim(f.symbol), denom |-> Trim(f.denom),
     totalSupply |-> parseUnits(f.totalSupply, clampDecimals(f.decimals)),
     decimals |-> clampDecimals(f.decimals),
     logoBase64 |-> f.logoBase64]

\* the ABI encoding of the arguments succeeds: totalSupply is a uint256
Encodable(args) ==
    ~args.totalSupply.neg /\ DigitsLeq(args.totalSupply.digits, UINT256_MAX_DIGITS)

\* what handleInputChange does with a typed value: decimals and totalSupply
\* refuse some values, the other fields take any
inputRefused(field, value) ==
    \/ /\ field = "decimals"
       /\ value # <<>>
       /\ \/ parseInt(value).nan
          \/ parseInt(value).value < 0
          \/ parseInt(value).value > 18
    \/ /\ field = "totalSupply"
       /\ value # <<>>
       /\ (isNaN(Number(value)) \/ Negative(Number(value)))

\* isFormValid of the render: every text field is a non-empty string
isFormValid(f) ==
    f.name # <<>> /\ f.symbol # <<>> /\ f.denom # <<>> /\ f.totalSupply # <<>> /\ f.decimals # <<>>

Toast(kind, message) == [kind |-> kind, message |-> message]

NoToast == Toast("none", "")

\* getErrorMessage(error) || fallback, for the errors the model raises
errorMessage(e) ==
    CASE e = "userRejected" -> "User rejected the request."
      [] e = "providerError" -> "Internal JSON-RPC error."
      [] e = "encodeError" -> "Number is not in safe 256-bit unsigned integer range"
      [] e = "receiptError" -> "The Transaction may not be processed on a block yet."
      [] OTHER -> "Transaction failed"

\* ------------------------------------------------------------------------
\* State
\* ------------------------------------------------------------------------

VARIABLES
    receipt,               \* the logs of the receipt handed to the extraction
    result,                \* what the extraction finished by the last step returned, NotRun
                           \* when the step finished none
    form,                  \* useState<TokenForm>
    showPreview,           \* preview modal open
    deployedToken,         \* useState<DeployedToken | null>: <<>> for null, <<token>>
    showSuccess,           \* success modal open
    hasProcessedSuccess,   \* useState(false)
    address,               \* useAccount().address, None when no wallet is connected
    chainId,               \* useChainId()
    hash,                  \* useWriteContract().data, NoHash for undefined
    isPending,             \* useWriteContract().isPending
    writeError,            \* useWriteContract().error, None for null
    receiptStatus,         \* useWaitForTransactionReceipt: idle, loading, success, error
    deployedTokens,        \* localStorage "deployedTokens"
    lastProcessedTxHash,   \* localStorage "lastProcessedTxHash", NoHash when absent
    pendingSuccess,        \* the handleSuccess runs awaiting the extraction
    toast,                 \* the toast the last step showed, NoToast when it showed none
    writeCall,             \* the last call of writeContract: <<>> before the first, <<call>>
    submitted,             \* submitted[h]: the call the wallet answered with hash h
    createTokenMutation,   \* useCreateToken: the step of mutationFn and the feedback shown
    returned,              \* what the successive calls of the extraction on receipt returned
    proposals,             \* AllProposals: useState<ProposalData[]>, the number of records shown
    loading,               \* AllProposals: useState(false)
    currentPage,           \* AllProposals: useState(1)
    totalPages,            \* AllProposals: useState<number | null>, UnknownTotal for null
    hasNextPage,           \* AllProposals: useState(true)
    hasLoadedInitial,      \* AllProposals: useState(false)
    error,                 \* AllProposals: useState<string | null>, None for null
    fetches,               \* the pages whose fetchProposals call has not settled yet
    proposalCount,         \* the number of proposals the node holds
    received,              \* what the fetch settled by the last step gave: <<>> when the
                           \* step settled none, else <<page, number of records>>
    attempts,              \* let attempts = 0 of the receipt polling
    lookups,               \* the getTransactionReceipt calls the polling has issued
    proposalsPage,         \* AllProposals: the page the records in proposals were fetched
                           \* for, NoPage while none have been set
    debugMode,             \* useAppStore: debugMode
    rpcUrl,                \* useAppStore: rpcUrl
    persisted,             \* localStorage "helios-app-store": the state it holds
    open,                  \* SettingsModal: the open prop
    localDebugMode,        \* SettingsModal: useState(debugMode)
    localRpcUrl,           \* SettingsModal: useState(rpcUrl)
    pollStatus             \* the polling: idle, pending (a lookup in flight), scheduled
                           \* (setTimeout armed), resolved, rejected

vars ==
    <<receipt, result, form, showPreview, deployedToken, showSuccess,
      hasProcessedSuccess, address, chainId, hash, isPending, writeError,
      receiptStatus, deployedTokens, lastProcessedTxHash, pendingSuccess, toast,
      writeCall, submitted, createTokenMutation, returned,
      proposals, loading, currentPage, totalPages, hasNextPage, hasLoadedInitial,
      error, fetches, proposalCount, received,
      attempts, lookups, pollStatus, proposalsPage,
      debugMode, rpcUrl, persisted, open, localDebugMode, localRpcUrl>>

pageVars ==
    <<proposals, proposalsPage, loading, currentPage, totalPages, hasNextPage, hasLoadedInitial,
      error, fetches, proposalCount, received>>

\* the app store, its persisted entry and the state of SettingsModal
settingsVars == <<debugMode, rpcUrl, persisted, open, localDebugMode, localRpcUrl>>

\* the receipt polling of the component's extractTokenAddressFromReceipt
pollVars == <<attempts, lookups, pollStatus>>

extractVars == <<receipt, result, returned>>

walletVars == <<address, chainId>>

writeVars == <<hash, isPending, writeError, receiptStatus>>

storageVars == <<deployedTokens, lastProcessedTxHash>>

isConfirming == receiptStatus = "loading"

isConfirmed == receiptStatus = "success"

confirmError == receiptStatus = "error"

\* ------------------------------------------------------------------------
\* Bounds and inputs of the lifecycle
\* ------------------------------------------------------------------------

\* transactions the wallet signs in one run
MaxDeploys == 2

\* capacity of the recent-history list
HistoryCapacity == 10

Account == "0xWallet"

OtherChainId == HELIOS_NETWORK_ID + 1

\* the wallet: not connected, connected on Helios, connected on another chain
WalletInputs ==
    {<<None, HELIOS_NETWORK_ID>>, <<Account, HELIOS_NETWORK_ID>>, <<Account, OtherChainId>>}

\* a token an earlier session left in the history; its hash is no hash of
\* this session
OldToken(i) ==
    [address |-> TokenB, name |-> <<"O">>, symbol |-> <<"O">>, denom |-> <<"o">>,
     totalSupply |-> <<"1">>, decimals |-> 18, logoBase64 |-> 0, txHash |-> 0 - i]

OldHistory(n) == [i \in 1..n |-> OldToken(i)]

\* the histories a session starts with: empty, or one entry below capacity
HistoryInputs == {OldHistory(0), OldHistory(HistoryCapacity - 1)}

\* what the receipt lookup of handleSuccess ends with: no receipt, or a receipt
NoReceipt == [found |-> FALSE, logs |-> <<>>]

ReceiptOf(logs) == [found |-> TRUE, logs |-> logs]

ReceiptOutcomes ==
    { NoReceipt,
      ReceiptOf(<<Log(PRECOMPILE_CONTRACT_ADDRESS, <<>>, PaddedData(Rep("c", 40)))>>),
      ReceiptOf(<<Log(TokenA, MintTopics, <<"0", "x">>)>>),
      ReceiptOf(<<Log(PRECOMPILE_CONTRACT_ADDRESS, <<>>, <<"0", "x">>)>>),
      ReceiptOf(<<>>) }

\* the values the fields of the form are given.  Each is a string
\* handleInputChange accepts; every check of validateForm has a value that
\* fails it and a value that passes it.
NameInputs == {<<>>, <<" ">>, <<"T">>}

SymbolInputs == {<<>>, <<"A">>, <<"-">>}

DenomInputs == {<<>>, <<"a">>, <<"A">>}

\* a supply of 61 digits: scaled by 10^18 it has 79 digits, more than 2^256 - 1
HugeSupply == <<"1">> \o Rep("0", 60)

TotalSupplyInputs == {<<>>, <<"0">>, <<"1">>, <<"+", "1">>, HugeSupply}

DecimalsInputs == {<<>>, <<"1", "8">>, <<"0">>, <<"1", ".", "5">>}

LogoInputs == {0, MaxLogoLength + 1}

FormInputs ==
    [name : NameInputs, symbol : SymbolInputs, denom : DenomInputs,
     totalSupply : TotalSupplyInputs, decimals : DecimalsInputs,
     logoBase64 : LogoInputs, inProgress : {FALSE}]

\* a form that passes validateForm, and the values typed over it while a
\* deployment is under way
FilledForm ==
    [name |-> <<"T">>, symbol |-> <<"A">>, denom |-> <<"a">>, totalSupply |-> <<"1">>,
     decimals |-> <<"1", "8">>, logoBase64 |-> 0, inProgress |-> FALSE]

EditInputs == { <<"name", <<"U", " ">> >>, <<"decimals", <<"1", "9">> >> }

\* the state of useCreateToken: the step mutationFn is at and the feedback
HookState(step, feedback) ==
    [step |-> step, feedback |-> feedback,
     status |-> IF step = "success" THEN "success" ELSE "primary", error |-> None]

\* setFeedback({status: "danger", message}) of the catch block and onError,
\* with the error the mutation settles with
HookFailed(e, message) ==
    [step |-> "error", feedback |-> message, status |-> "danger", error |-> e]

HookIdle == HookState("idle", "")

\* ------------------------------------------------------------------------
\* Initial states
\* ------------------------------------------------------------------------

\* totalPages before the last page is known
UnknownTotal == 0

\* no page: the records of useState([]) were fetched for none
NoPage == 0

\* AllProposals as its useState calls leave it, nothing fetched yet and the
\* node holding no proposal
PageUnmounted ==
    /\ proposals = 0
    /\ proposalsPage = NoPage
    /\ loading = FALSE
    /\ currentPage = 1
    /\ totalPages = UnknownTotal
    /\ hasNextPage = TRUE
    /\ hasLoadedInitial = FALSE
    /\ error = None
    /\ fetches = <<>>
    /\ received = <<>>

\* rpcUrl: "https://testnet1.helioschainlabs.org" of the store, the literal
\* handleSave and the debug toggle write
DefaultRpcUrl == "https://testnet1.helioschainlabs.org"

\* partialize: the part of the store the persist middleware writes
partialize(d, u) == [debugMode |-> d, rpcUrl |-> u]

\* the store as create() leaves it with no entry to rehydrate from, written
\* back by the middleware, and the modal closed
SettingsClosed ==
    /\ debugMode = FALSE
    /\ rpcUrl = DefaultRpcUrl
    /\ persisted = partialize(FALSE, DefaultRpcUrl)
    /\ open = FALSE
    /\ localDebugMode = FALSE
    /\ localRpcUrl = DefaultRpcUrl

\* no extraction of the component is polling for a receipt
PollIdle ==
    /\ attempts = 0
    /\ lookups = 0
    /\ pollStatus = "idle"

ExtractIdle ==
    /\ receipt = <<>>
    /\ result = NotRun
    /\ returned = <<>>
    /\ PageUnmounted
    /\ PollIdle
    /\ SettingsClosed
    /\ proposalCount = 0

ComponentInit ==
    /\ showPreview = FALSE
    /\ deployedToken = <<>>
    /\ showSuccess = FALSE
    /\ hasProcessedSuccess = FALSE
    /\ pendingSuccess = <<>>
    /\ toast = NoToast

NoCalls == writeCall = <<>> /\ submitted = <<>>

WagmiInit ==
    /\ hash = NoHash
    /\ isPending = FALSE
    /\ writeError = None
    /\ receiptStatus = "idle"

\* the wallet may or may not be connected, and the storage holds what earlier
\* sessions left: their tokens, and the hash of the last as the marker
SessionInit ==
    /\ ExtractIdle
    /\ ComponentInit
    /\ NoCalls
    /\ WagmiInit
    /\ createTokenMutation = HookIdle
    /\ \E w \in WalletInputs : address = w[1] /\ chainId = w[2]
    /\ deployedTokens \in HistoryInputs
    /\ lastProcessedTxHash =
          IF deployedTokens = <<>> THEN NoHash ELSE deployedTokens[1].txHash

\* the page is open and the form has been typed
Init == SessionInit /\ form \in FormInputs

\* the form is filled in, and is typed over while deployments are under way
TypingInit == SessionInit /\ form = FilledForm

\* ------------------------------------------------------------------------
\* TokenDeployerInterface: handlers and effects
\* ------------------------------------------------------------------------

\* mutant: the success effect without the hasProcessedSuccess flag
successEffectRuns_noFlag(h, marker) == marker # h

\* mutant: the success effect without the lastProcessedTxHash comparison
successEffectRuns_noMarker(h, marker) == ~hasProcessedSuccess

\* the success effect for the hash h of the render: whether it calls
\* handleSuccess, marker being the stored lastProcessedTxHash
successEffectRuns(h, marker) == ~hasProcessedSuccess /\ marker # h

\* the success effect after a render in which one of its dependencies has
\* changed: confirmed is isConfirmed of that render, f its form, marker the
\* stored lastProcessedTxHash and pending the runs of handleSuccess that are
\* waiting.  handleSuccess sets the flag and waits for the extraction, with
\* the hash and the form of that render.
successEffect(confirmed, f, marker, pending) ==
    IF confirmed /\ hash # NoHash /\ successEffectRuns(hash, marker)
    THEN /\ hasProcessedSuccess' = TRUE
         /\ pendingSuccess' = Append(pending, [currentHash |-> hash, form |-> f])
    ELSE /\ hasProcessedSuccess' = hasProcessedSuccess
         /\ pendingSuccess' = pending

\* handleInputChange(field)(event)
handleInputChange(field, value) ==
    /\ IF inputRefused(field, value)
       THEN UNCHANGED <<form, hasProcessedSuccess, pendingSuccess>>
       ELSE /\ form' = [form EXCEPT ![field] = value]
            /\ successEffect(isConfirmed, form', lastProcessedTxHash, pendingSuccess)
    /\ toast' = NoToast
    /\ result' = NotRun
    /\ UNCHANGED <<pageVars, pollVars, settingsVars, receipt, returned, showPreview, deployedToken, showSuccess, walletVars,
                   writeVars, storageVars, writeCall, submitted, createTokenMutation>>

\* handleImageUpload, once the image is read and resized
handleImageUpload(length) ==
    /\ form' = [form EXCEPT !.logoBase64 = length]
    /\ successEffect(isConfirmed, form', lastProcessedTxHash, pendingSuccess)
    /\ toast' = NoToast
    /\ result' = NotRun
    /\ UNCHANGED <<pageVars, pollVars, settingsVars, receipt, returned, showPreview, deployedToken, showSuccess, walletVars,
                   writeVars, storageVars, writeCall, submitted, createTokenMutation>>

\* handlePreview, behind the Preview button
handlePreview ==
    /\ isFormValid(form) /\ chainId = HELIOS_NETWORK_ID /\ address # None
    /\ IF validateForm(form)
       THEN showPreview' = TRUE /\ toast' = NoToast
       ELSE toast' = Toast("error", validationError(form)) /\ UNCHANGED showPreview
    /\ result' = NotRun /\ UNCHANGED <<pageVars, pollVars, settingsVars, receipt, returned, form, deployedToken, showSuccess,
                   hasProcessedSuccess, walletVars, writeVars, storageVars,
                   pendingSuccess, writeCall, submitted, createTokenMutation>>

\* the preview modal's onClose and its Edit button
closePreview ==
    /\ showPreview
    /\ showPreview' = FALSE
    /\ toast' = NoToast
    /\ result' = NotRun
    /\ UNCHANGED <<pageVars, pollVars, settingsVars, receipt, returned, form, deployedToken, showSuccess,
                   hasProcessedSuccess, walletVars, writeVars, storageVars,
                   pendingSuccess, writeCall, submitted, createTokenMutation>>

\* mutant: handleDeploy without the wallet and network checks
deployBlocked_noPreconditions ==
    IF ~validateForm(form) THEN validationError(form) ELSE None

\* the early returns of handleDeploy: the error it reports, None when it goes on
deployBlocked ==
    IF ~validateForm(form) THEN validationError(form)
    ELSE IF address = None THEN "Please connect your wallet to deploy tokens"
    ELSE IF chainId # HELIOS_NETWORK_ID THEN "Please switch to Helios network to deploy tokens"
    ELSE None

\* handleDeploy.  writeContract is the mutate function of a mutation: calling
\* it starts a new mutation, whose data (hash) is undefined, whose error is
\* null and which is pending until the wallet answers; it returns at once
\* and does not throw.  The timer set before the call is cleared right after
\* it.
handleDeploy ==
    IF deployBlocked # None
    THEN /\ toast' = Toast("error", deployBlocked)
         /\ result' = NotRun /\ UNCHANGED <<pageVars, pollVars, settingsVars, receipt, returned, form, showPreview, deployedToken, showSuccess,
                        hasProcessedSuccess, walletVars, writeVars, storageVars,
                        pendingSuccess, writeCall, submitted, createTokenMutation>>
    ELSE IF parseUnitsThrows(form.totalSupply)
    THEN /\ form' = [form EXCEPT !.inProgress = FALSE]
         /\ hasProcessedSuccess' = FALSE
         /\ lastProcessedTxHash' = NoHash
         /\ toast' = Toast("error", "Failed to deploy token")
         /\ result' = NotRun /\ UNCHANGED <<pageVars, pollVars, settingsVars, receipt, returned, showPreview, deployedToken, showSuccess,
                        walletVars, writeVars, deployedTokens,
                        pendingSuccess, writeCall, submitted, createTokenMutation>>
    ELSE /\ form' = [form EXCEPT !.inProgress = TRUE]
         /\ hasProcessedSuccess' = FALSE
         /\ lastProcessedTxHash' = NoHash
         /\ writeCall' = <<[args |-> createErc20Args(form), request |-> form,
                            address |-> address, chainId |-> chainId]>>
         /\ hash' = NoHash
         /\ isPending' = TRUE
         /\ writeError' = None
         /\ receiptStatus' = "idle"
         /\ toast' = Toast("info", "Transaction submitted, waiting for confirmation...")
         /\ result' = NotRun /\ UNCHANGED <<pageVars, pollVars, settingsVars, receipt, returned, showPreview, deployedToken, showSuccess,
                        walletVars, deployedTokens, pendingSuccess, submitted, createTokenMutation>>

\* the Deploy button of the form
DeployButton ==
    /\ isFormValid(form) /\ chainId = HELIOS_NETWORK_ID /\ address # None
    /\ ~form.inProgress /\ ~isPending /\ ~isConfirming
    /\ handleDeploy

\* the Confirm Deploy button of the preview modal
ConfirmDeployButton ==
    /\ showPreview
    /\ ~(form.inProgress \/ isPending \/ isConfirming)
    /\ handleDeploy

\* cancelTransaction, behind the Cancel button of the preview modal
cancelTransaction ==
    /\ showPreview
    /\ form.inProgress \/ isPending \/ isConfirming
    /\ form' = [form EXCEPT !.inProgress = FALSE]
    /\ showPreview' = FALSE
    /\ successEffect(isConfirmed, form', lastProcessedTxHash, pendingSuccess)
    /\ toast' = Toast("info", "Transaction cancelled. You can try again.")
    /\ result' = NotRun
    /\ UNCHANGED <<pageVars, pollVars, settingsVars, receipt, returned, deployedToken, showSuccess, walletVars, writeVars,
                   storageVars, writeCall, submitted, createTokenMutation>>

\* resetForm, behind "Deploy Another Token" of the success modal
resetForm ==
    /\ showSuccess /\ deployedToken # <<>>
    /\ form' = InitialForm
    /\ deployedToken' = <<>>
    /\ showSuccess' = FALSE
    /\ showPreview' = FALSE
    /\ successEffect(isConfirmed, form', lastProcessedTxHash, pendingSuccess)
    /\ toast' = NoToast
    /\ result' = NotRun
    /\ UNCHANGED <<pageVars, pollVars, settingsVars, receipt, returned, walletVars, writeVars, storageVars, writeCall, submitted,
                   createTokenMutation>>

\* the success modal's onClose
closeSuccess ==
    /\ showSuccess
    /\ showSuccess' = FALSE
    /\ toast' = NoToast
    /\ result' = NotRun
    /\ UNCHANGED <<pageVars, pollVars, settingsVars, receipt, returned, form, showPreview, deployedToken,
                   hasProcessedSuccess, walletVars, writeVars, storageVars,
                   pendingSuccess, writeCall, submitted, createTokenMutation>>

\* the effect on [writeError, confirmError], run when one of them is set
errorEffect(e) ==
    /\ toast' = Toast("error", errorMessage(e))
    /\ form' = [form EXCEPT !.inProgress = FALSE]
    /\ showPreview' = FALSE

\* the wallet signs and broadcasts the pending call: the hash is new, the
\* receipt is awaited ("Transaction is being confirmed...")
WalletApproves ==
    /\ isPending
    /\ Len(submitted) < MaxDeploys
    /\ Encodable(writeCall[1].args)
    /\ hash' = Len(submitted) + 1
    /\ submitted' = Append(submitted, writeCall[1])
    /\ isPending' = FALSE
    /\ receiptStatus' = "loading"
    /\ toast' = Toast("info", "Transaction is being confirmed...")
    /\ result' = NotRun /\ UNCHANGED <<pageVars, pollVars, settingsVars, receipt, returned, form, showPreview, deployedToken, showSuccess,
                   hasProcessedSuccess, walletVars, writeError, storageVars,
                   pendingSuccess, writeCall, createTokenMutation>>

\* the pending call fails: the arguments do not encode, the user declines,
\* or the provider reports an error
WriteFails(e) ==
    /\ isPending
    /\ IF Encodable(writeCall[1].args) THEN e \in {"userRejected", "providerError"}
       ELSE e = "encodeError"
    /\ isPending' = FALSE
    /\ writeError' = e
    /\ errorEffect(e)
    /\ result' = NotRun /\ UNCHANGED <<pageVars, pollVars, settingsVars, receipt, returned, deployedToken, showSuccess, hasProcessedSuccess,
                   walletVars, hash, receiptStatus, storageVars, pendingSuccess,
                   writeCall, submitted, createTokenMutation>>

\* useWaitForTransactionReceipt reports the receipt of the current hash
ReceiptArrives ==
    /\ isConfirming
    /\ receiptStatus' = "success"
    /\ successEffect(TRUE, form, lastProcessedTxHash, pendingSuccess)
    /\ toast' = NoToast
    /\ result' = NotRun
    /\ UNCHANGED <<pageVars, pollVars, settingsVars, receipt, returned, form, showPreview, deployedToken, showSuccess,
                   walletVars, hash, isPending, writeError, storageVars,
                   writeCall, submitted, createTokenMutation>>

\* useWaitForTransactionReceipt gives up with an error
ReceiptFails ==
    /\ isConfirming
    /\ receiptStatus' = "error"
    /\ errorEffect("receiptError")
    /\ result' = NotRun /\ UNCHANGED <<pageVars, pollVars, settingsVars, receipt, returned, deployedToken, showSuccess, hasProcessedSuccess,
                   walletVars, hash, isPending, writeError, storageVars,
                   pendingSuccess, writeCall, submitted, createTokenMutation>>

\* the address handleSuccess gets from the component's
\* extractTokenAddressFromReceipt: <<>> when the lookup ends without a receipt
\* or throws, otherwise what the two rules give for the receipt's logs
contractAddressOf(outcome) ==
    IF ~outcome.found THEN <<>> ELSE extractTokenAddressFromReceipt(outcome.logs)

\* the DeployedToken of handleSuccess
deployedTokenData(contractAddress, run) ==
    [address |-> contractAddress, name |-> run.form.name, symbol |-> run.form.symbol,
     denom |-> run.form.denom, totalSupply |-> run.form.totalSupply,
     decimals |-> parseInt(run.form.decimals).value,
     logoBase64 |-> run.form.logoBase64, txHash |-> run.currentHash]

\* mutant: the token is pushed at the end instead of unshifted
recentsAfter_push(token) ==
    LET recents == Append(deployedTokens, token)
    IN IF Len(recents) <= HistoryCapacity THEN recents ELSE SubSeq(recents, 1, HistoryCapacity)

\* mutant: the history is written without the entries read from storage
recentsAfter_overwrite(token) == <<token>>

\* recents.unshift(token); recents.slice(0, 10)
recentsAfter(token) ==
    LET recents == <<token>> \o deployedTokens
    IN IF Len(recents) <= HistoryCapacity THEN recents ELSE SubSeq(recents, 1, HistoryCapacity)

\* mutant: handleSuccess without the check of the extracted address
addressMissing_unchecked(contractAddress) == FALSE

\* if (!contractAddress) throw
addressMissing(contractAddress) == contractAddress = <<>>

\* mutant: the catch block of handleSuccess leaves inProgress as it is
handleSuccessCatch_keepsProgress ==
    /\ toast' = Toast("error", "Failed to get deployed token address")
    /\ UNCHANGED <<form, deployedToken, showPreview, showSuccess, storageVars>>

\* the catch block of handleSuccess
handleSuccessCatch ==
    /\ toast' = Toast("error", "Failed to get deployed token address")
    /\ form' = [form EXCEPT !.inProgress = FALSE]
    /\ UNCHANGED <<deployedToken, showPreview, showSuccess, storageVars>>

\* pendingSuccess without its run i
withoutRun(i) ==
    [j \in 1..(Len(pendingSuccess) - 1) |->
        IF j < i THEN pendingSuccess[j] ELSE pendingSuccess[j + 1]]

\* handleSuccess after the await: run i of pendingSuccess gets the outcome of
\* the extraction.  It sets the form, so the success effect runs again after
\* the render.
handleSuccessResumes(i, outcome) ==
    LET run == pendingSuccess[i]
        contractAddress == contractAddressOf(outcome)
        token == deployedTokenData(contractAddress, run)
    IN /\ result' = contractAddress
       /\ IF addressMissing(contractAddress)
          THEN handleSuccessCatch
          ELSE /\ deployedToken' = <<token>>
               /\ showPreview' = FALSE
               /\ showSuccess' = TRUE
               /\ form' = [form EXCEPT !.inProgress = FALSE]
               /\ deployedTokens' = recentsAfter(token)
               /\ toast' = Toast("success", "Token deployed successfully!")
               /\ lastProcessedTxHash' = run.currentHash
       /\ successEffect(isConfirmed, form', lastProcessedTxHash', withoutRun(i))
       /\ UNCHANGED <<pageVars, pollVars, settingsVars, receipt, returned, walletVars, writeVars, writeCall, submitted,
                      createTokenMutation>>

\* the wallet connects, disconnects or changes network
WalletChanges(a, c) ==
    /\ <<a, c>> # <<address, chainId>>
    /\ address' = a
    /\ chainId' = c
    /\ toast' = NoToast
    /\ result' = NotRun
    /\ UNCHANGED <<pageVars, pollVars, settingsVars, receipt, returned, form, showPreview, deployedToken, showSuccess,
                   hasProcessedSuccess, writeVars, storageVars,
                   pendingSuccess, writeCall, submitted, createTokenMutation>>

\* the effect "Reset form state if transaction is pending for too long" holds
\* a timer exactly while both of its dependencies are true; any change of
\* either runs the cleanup, which clears it
pendingTimerArmed == isPending /\ form.inProgress

\* the 120 seconds of that timer pass.  (The 180 second timer of handleDeploy
\* is cleared by handleDeploy itself right after writeContract returns or
\* throws, so it never expires and is no step of the model.)
PendingTimeout ==
    /\ pendingTimerArmed
    /\ toast' = Toast("error",
                      "Transaction is taking longer than expected. Please check your wallet.")
    /\ result' = NotRun
    /\ UNCHANGED <<pageVars, pollVars, settingsVars, receipt, returned, form, showPreview, deployedToken, showSuccess,
                   hasProcessedSuccess, walletVars, writeVars, storageVars,
                   pendingSuccess, writeCall, submitted, createTokenMutation>>

\* ------------------------------------------------------------------------
\* Specifications
\* ------------------------------------------------------------------------

Edit == \E e \in EditInputs : handleInputChange(e[1], e[2])

Resume == \E i \in 1..Len(pendingSuccess), o \in ReceiptOutcomes :
              handleSuccessResumes(i, o)

WriteError == \E e \in {"userRejected", "providerError", "encodeError"} : WriteFails(e)

Wallet == \E w \in WalletInputs : WalletChanges(w[1], w[2])

Lifecycle ==
    \/ handlePreview
    \/ closePreview
    \/ DeployButton
    \/ ConfirmDeployButton
    \/ cancelTransaction
    \/ resetForm
    \/ closeSuccess
    \/ WalletApproves
    \/ WriteError
    \/ ReceiptArrives
    \/ ReceiptFails
    \/ Resume
    \/ Wallet

Next == Lifecycle

Spec == Init /\ [][Next]_vars

SpecTyping == TypingInit /\ [][Edit \/ Next]_vars

\* supplies with no, one and three fraction digits
ScaleSupplyInputs == {<<"1">>, <<"1", ".", "5">>, <<"1", ".", "0", "0", "5">>}

ScaleDecimalsInputs == {<<"1", "8">>, <<"2">>, <<"0">>}

\* forms that pass validateForm and differ in the supply and the decimals
ScaleForms ==
    {[FilledForm EXCEPT !.totalSupply = s, !.decimals = d] :
        s \in ScaleSupplyInputs, d \in ScaleDecimalsInputs}

ScaleInit ==
    /\ ExtractIdle
    /\ ComponentInit
    /\ NoCalls
    /\ WagmiInit
    /\ createTokenMutation = HookIdle
    /\ address = Account
    /\ chainId = HELIOS_NETWORK_ID
    /\ deployedTokens = <<>>
    /\ lastProcessedTxHash = NoHash
    /\ form \in ScaleForms

\* forms with fractional supplies and few decimals are deployed
SpecScale == ScaleInit /\ [][Next]_vars

\* a filled form is deployed while the timers of the page run
SpecWait == TypingInit /\ [][Next \/ PendingTimeout]_vars

\* the same steps with the fairness the code's scheduling gives: an armed
\* setTimeout fires and a handleSuccess that awaits the extraction resumes
\* (the polling ends within maxAttempts lookups).  The wallet, the chain and
\* the user owe no step.
SpecLive ==
    /\ TypingInit
    /\ [][Next \/ PendingTimeout]_vars
    /\ WF_vars(PendingTimeout)
    /\ WF_vars(Resume)

\* ------------------------------------------------------------------------
\* A page shown while a transaction is awaited
\* ------------------------------------------------------------------------

\* the call that was answered with the awaited hash
RestoredCall ==
    [args |-> createErc20Args(FilledForm), request |-> FilledForm,
     address |-> Account, chainId |-> HELIOS_NETWORK_ID]

\* the token derived from the awaited hash by an earlier run of handleSuccess
RestoredToken ==
    deployedTokenData(TokenA, [currentHash |-> 1, form |-> FilledForm])

\* the render holds a hash whose receipt is awaited and has not run
\* handleSuccess; the storage may already mark that hash as processed and
\* hold its token
ReplayInit ==
    /\ ExtractIdle
    /\ ComponentInit
    /\ createTokenMutation = HookIdle
    /\ form = FilledForm
    /\ writeCall = <<RestoredCall>>
    /\ submitted = <<RestoredCall>>
    /\ hash = Len(submitted)
    /\ isPending = FALSE
    /\ writeError = None
    /\ receiptStatus = "loading"
    /\ \E w \in WalletInputs : address = w[1] /\ chainId = w[2]
    /\ \/ deployedTokens = <<>> /\ lastProcessedTxHash = NoHash
       \/ deployedTokens = <<RestoredToken>> /\ lastProcessedTxHash = hash
       \/ /\ deployedTokens = OldHistory(HistoryCapacity - 1)
          /\ lastProcessedTxHash = OldToken(1).txHash

SpecReplay == ReplayInit /\ [][Next]_vars

\* ------------------------------------------------------------------------
\* useCreateToken: createToken and the steps of mutationFn
\* ------------------------------------------------------------------------

\* useWeb3Provider(): a provider while a wallet is connected, null otherwise
web3Provider == address # None

inFlight == createTokenMutation.step \in {"simulating", "estimating", "sending"}

\* getErrorMessage(error) || "Error during token deployment", for the errors
\* mutationFn throws
hookErrorMessage(e) ==
    CASE e = "noWallet" -> "No wallet connected"
      [] e = "circuitBreaker" ->
            "Network is currently overloaded. Please try again in a few moments."
      [] e = "noSimulationResult" -> "Error during simulation, please try again later"
      [] e = "userRejected" -> "Transaction cancelled by user"
      [] e = "noAddress" -> "Could not extract contract address from transaction receipt"
      [] OTHER -> "Error during token deployment"

\* the catch block of mutationFn and onError
mutationFails(e) == createTokenMutation' = HookFailed(e, hookErrorMessage(e))

\* createToken(params), the params being the form: validation, then
\* mutateAsync, which runs mutationFn up to its first await
createToken ==
    /\ ~inFlight
    /\ IF ~validateTokenParams(form)
       THEN /\ toast' = Toast("error", validationError(form))
            /\ UNCHANGED createTokenMutation
       ELSE IF ~web3Provider
       THEN mutationFails("noWallet") /\ toast' = NoToast
       ELSE IF parseUnitsThrows(form.totalSupply)
       THEN mutationFails("invalidDecimal") /\ toast' = NoToast
       ELSE /\ createTokenMutation' =
                   HookState("simulating", "Token deployment in progress...")
            /\ toast' = NoToast
    /\ result' = NotRun
    /\ UNCHANGED <<pageVars, pollVars, settingsVars, receipt, returned, form, showPreview, deployedToken, showSuccess,
                   hasProcessedSuccess, walletVars, writeVars, storageVars,
                   pendingSuccess, writeCall, submitted>>

\* contractMethod.call() returns or throws; arguments that do not encode
\* throw
SimulationReturns(o) ==
    /\ createTokenMutation.step = "simulating"
    /\ IF Encodable(createErc20Args(form))
       THEN o \in {"ok", "noSimulationResult", "circuitBreaker", "providerError"}
       ELSE o = "encodeError"
    /\ IF o = "ok"
       THEN createTokenMutation' = HookState("estimating", "Estimating gas...")
       ELSE mutationFails(o)
    /\ toast' = NoToast
    /\ result' = NotRun
    /\ UNCHANGED <<pageVars, pollVars, settingsVars, receipt, returned, form, showPreview, deployedToken, showSuccess,
                   hasProcessedSuccess, walletVars, writeVars, storageVars,
                   pendingSuccess, writeCall, submitted>>

\* mutant: sendTransaction is called whether or not the estimation failed
EstimateReturns_sendsAnyway(o) ==
    /\ createTokenMutation.step = "estimating"
    /\ IF o = "ok"
       THEN /\ createTokenMutation' =
                   HookState("sending", "Sending token deployment transaction...")
            /\ toast' = Toast("info", "Preparing transaction for wallet confirmation...")
       ELSE /\ mutationFails(o)
            /\ toast' = NoToast
    /\ writeCall' = <<[args |-> createErc20Args(form), request |-> form,
                       address |-> address, chainId |-> chainId]>>
    /\ result' = NotRun
    /\ UNCHANGED <<pageVars, pollVars, settingsVars, receipt, returned, form, showPreview, deployedToken, showSuccess,
                   hasProcessedSuccess, walletVars, writeVars, storageVars,
                   pendingSuccess, submitted>>

\* contractMethod.estimateGas() returns or throws; when it returns,
\* sendTransaction is called
EstimateReturns(o) ==
    /\ createTokenMutation.step = "estimating"
    /\ IF o = "ok"
       THEN /\ createTokenMutation' =
                   HookState("sending", "Sending token deployment transaction...")
            /\ writeCall' = <<[args |-> createErc20Args(form), request |-> form,
                               address |-> address, chainId |-> chainId]>>
            /\ toast' = Toast("info", "Preparing transaction for wallet confirmation...")
       ELSE /\ mutationFails(o)
            /\ toast' = NoToast
            /\ UNCHANGED writeCall
    /\ result' = NotRun
    /\ UNCHANGED <<pageVars, pollVars, settingsVars, receipt, returned, form, showPreview, deployedToken, showSuccess,
                   hasProcessedSuccess, walletVars, writeVars, storageVars,
                   pendingSuccess, submitted>>

\* sendTransaction resolves with the receipt: the address is extracted and
\* the token is set, or the extraction gives nothing and mutationFn throws
SendResolves(logs) ==
    LET txHash == Len(submitted) + 1
        contractAddress == extractTokenAddressFromReceipt(logs)
    IN /\ createTokenMutation.step = "sending"
       /\ Len(submitted) < MaxDeploys
       /\ hash' = txHash
       /\ submitted' = Append(submitted, writeCall[1])
       /\ result' = contractAddress
       /\ IF addressMissing(contractAddress)
          THEN /\ mutationFails("noAddress")
               /\ toast' = Toast("info", "Transaction hash")
               /\ UNCHANGED deployedToken
          ELSE /\ deployedToken' =
                      <<deployedTokenData(contractAddress,
                                          [currentHash |-> txHash, form |-> form])>>
               /\ createTokenMutation' = HookState("success", "Token deployed successfully!")
               /\ toast' = Toast("success", "Token deployed successfully!")
       /\ UNCHANGED <<pageVars, pollVars, settingsVars, receipt, returned, form, showPreview, showSuccess, hasProcessedSuccess,
                      walletVars, isPending, writeError, receiptStatus, storageVars,
                      pendingSuccess, writeCall>>

\* sendTransaction rejects: the user declines, or the provider fails
SendRejects(e) ==
    /\ createTokenMutation.step = "sending"
    /\ mutationFails(e)
    /\ toast' = NoToast
    /\ result' = NotRun
    /\ UNCHANGED <<pageVars, pollVars, settingsVars, receipt, returned, form, showPreview, deployedToken, showSuccess,
                   hasProcessedSuccess, walletVars, writeVars, storageVars,
                   pendingSuccess, writeCall, submitted>>

\* reset(), between two deployments
reset ==
    /\ createTokenMutation.step \in {"success", "error"}
    /\ deployedToken' = <<>>
    /\ createTokenMutation' = HookIdle
    /\ toast' = NoToast
    /\ result' = NotRun
    /\ UNCHANGED <<pageVars, pollVars, settingsVars, receipt, returned, form, showPreview, showSuccess, hasProcessedSuccess,
                   walletVars, writeVars, storageVars, pendingSuccess, writeCall,
                   submitted>>

Simulation ==
    \E o \in {"ok", "noSimulationResult", "circuitBreaker", "providerError", "encodeError"} :
        SimulationReturns(o)

Estimation == \E o \in {"ok", "circuitBreaker", "providerError"} : EstimateReturns(o)

SendSettles ==
    \/ \E o \in ReceiptOutcomes \ {NoReceipt} : SendResolves(o.logs)
    \/ \E e \in {"userRejected", "providerError"} : SendRejects(e)

\* the hook is called with the form as its params
HookInit ==
    /\ ExtractIdle
    /\ ComponentInit
    /\ NoCalls
    /\ WagmiInit
    /\ createTokenMutation = HookIdle
    /\ form \in FormInputs
    /\ \E w \in WalletInputs : address = w[1] /\ chainId = w[2]
    /\ deployedTokens = <<>>
    /\ lastProcessedTxHash = NoHash

HookNext == createToken \/ Simulation \/ Estimation \/ SendSettles \/ reset \/ Wallet

SpecHook == HookInit /\ [][HookNext]_vars

\* the extraction alone, on every receipt of up to MaxLogs logs
ExtractInit ==
    /\ receipt \in ReceiptInputs
    /\ result = NotRun
    /\ returned = <<>>
    /\ PageUnmounted
    /\ PollIdle
    /\ SettingsClosed
    /\ proposalCount = 0
    /\ form = InitialForm
    /\ ComponentInit
    /\ NoCalls
    /\ WagmiInit
    /\ createTokenMutation = HookIdle
    /\ address = None
    /\ chainId = HELIOS_NETWORK_ID
    /\ deployedTokens = <<>>
    /\ lastProcessedTxHash = NoHash

Extract ==
    /\ result = NotRun
    /\ result' = extractTokenAddressFromReceipt(receipt)
    /\ returned' = Append(returned, result')
    /\ toast' = NoToast
    /\ UNCHANGED <<pageVars, pollVars, settingsVars, receipt, form, showPreview, deployedToken, showSuccess,
                   hasProcessedSuccess, walletVars, writeVars, storageVars,
                   pendingSuccess, writeCall, submitted, createTokenMutation>>

SpecExtract == ExtractInit /\ [][Extract]_vars

MalformedInit ==
    /\ receipt \in MalformedReceiptInputs
    /\ result = NotRun
    /\ returned = <<>>
    /\ PageUnmounted
    /\ PollIdle
    /\ SettingsClosed
    /\ proposalCount = 0
    /\ form = InitialForm
    /\ ComponentInit
    /\ NoCalls
    /\ WagmiInit
    /\ createTokenMutation = HookIdle
    /\ address = None
    /\ chainId = HELIOS_NETWORK_ID
    /\ deployedTokens = <<>>
    /\ lastProcessedTxHash = NoHash

SpecMalformed == MalformedInit /\ [][Extract]_vars

\* the number of calls made on one receipt
MaxCalls == 2

\* mutant: a call after the first finds the receipt consumed
ExtractAgain_consumed ==
    /\ result # NotRun
    /\ Len(returned) < MaxCalls
    /\ result' = <<>>
    /\ returned' = Append(returned, result')
    /\ toast' = NoToast
    /\ UNCHANGED <<pageVars, pollVars, settingsVars, receipt, form, showPreview, deployedToken, showSuccess,
                   hasProcessedSuccess, walletVars, writeVars, storageVars,
                   pendingSuccess, writeCall, submitted, createTokenMutation>>

\* extractTokenAddressFromReceipt called once more on the same receipt
ExtractAgain ==
    /\ result # NotRun
    /\ Len(returned) < MaxCalls
    /\ result' = extractTokenAddressFromReceipt(receipt)
    /\ returned' = Append(returned, result')
    /\ toast' = NoToast
    /\ UNCHANGED <<pageVars, pollVars, settingsVars, receipt, form, showPreview, deployedToken, showSuccess,
                   hasProcessedSuccess, walletVars, writeVars, storageVars,
                   pendingSuccess, writeCall, submitted, createTokenMutation>>

\* the calls are made in a session that holds a history, a marker, a feedback
\* message and a deployed token, or none of them
RepeatInit ==
    /\ receipt \in MalformedReceiptInputs
    /\ result = NotRun
    /\ returned = <<>>
    /\ PageUnmounted
    /\ PollIdle
    /\ SettingsClosed
    /\ proposalCount = 0
    /\ form = InitialForm
    /\ showPreview = FALSE
    /\ showSuccess = FALSE
    /\ hasProcessedSuccess = FALSE
    /\ pendingSuccess = <<>>
    /\ toast = NoToast
    /\ NoCalls
    /\ WagmiInit
    /\ address = Account
    /\ chainId = HELIOS_NETWORK_ID
    /\ \/ /\ deployedTokens = <<>>
          /\ lastProcessedTxHash = NoHash
          /\ deployedToken = <<>>
          /\ createTokenMutation = HookIdle
       \/ /\ deployedTokens = OldHistory(HistoryCapacity - 1)
          /\ lastProcessedTxHash = deployedTokens[1].txHash
          /\ deployedToken = <<deployedTokens[1]>>
          /\ createTokenMutation = HookState("success", "Token deployed successfully!")

SpecRepeat == RepeatInit /\ [][Extract \/ ExtractAgain]_vars

\* ------------------------------------------------------------------------
\* AllProposals: the paginated list of proposals
\* ------------------------------------------------------------------------

\* the variables of the token deployer, which the list leaves alone
tokenVars ==
    <<receipt, result, returned, form, showPreview, deployedToken, showSuccess,
      hasProcessedSuccess, address, chainId, hash, isPending, writeError,
      receiptStatus, deployedTokens, lastProcessedTxHash, pendingSuccess, toast,
      writeCall, submitted, createTokenMutation>>

\* useState(10)
pageSize == 10

\* const maxVisiblePages = 5
maxVisiblePages == 5

\* the most proposals the node holds
MaxProposals == 25

\* the highest page the list is taken to
MaxPage == 4

\* the most fetches under way at once
MaxFetches == 2

Max(a, b) == IF a >= b THEN a ELSE b

Min(a, b) == IF a <= b THEN a ELSE b

\* eth_getProposalsByPageAndSize(page, pageSize): the number of records the
\* node returns
PageLength(page) == Min(pageSize, Max(0, proposalCount - pageSize * (page - 1)))

RemoveAt(s, i) == SubSeq(s, 1, i - 1) \o SubSeq(s, i + 1, Len(s))

\* loadProposals(page) up to its await, in a closure whose loading is false:
\* pending are the fetches under way
loadProposals(page, pending) ==
    /\ loading' = TRUE
    /\ error' = None
    /\ fetches' = Append(pending, page)

\* handlePageChange(page)
handlePageChange(page) ==
    /\ ~(page < 1 \/ page = currentPage \/ loading)
    /\ page <= MaxPage
    /\ Len(fetches) < MaxFetches
    /\ currentPage' = page
    /\ loadProposals(page, fetches)
    /\ received' = <<>>
    /\ UNCHANGED <<proposals, proposalsPage, totalPages, hasNextPage, hasLoadedInitial, proposalCount>>
    /\ UNCHANGED <<tokenVars, pollVars, settingsVars>>

\* <Pagination /> is rendered
paginationShown == hasLoadedInitial /\ ~loading /\ proposals > 0

\* getPageNumbers()
getPageNumbers ==
    IF totalPages = UnknownTotal
    THEN {currentPage} \cup (IF currentPage > 1 THEN {currentPage - 1} ELSE {})
    ELSE LET firstStart == Max(1, currentPage - (maxVisiblePages \div 2))
             endPage == Min(totalPages, firstStart + maxVisiblePages - 1)
             startPage == IF endPage - firstStart + 1 < maxVisiblePages
                          THEN Max(1, endPage - maxVisiblePages + 1)
                          ELSE firstStart
         IN startPage..endPage

\* the page buttons shown: the numbers of getPageNumbers, the first page and
\* the last page
pageButtons ==
    getPageNumbers
      \cup (IF totalPages # UnknownTotal /\ currentPage > 3 THEN {1} ELSE {})
      \cup (IF totalPages # UnknownTotal /\ currentPage < totalPages - 2
            THEN {totalPages} ELSE {})

\* a click on a page button
PageButton(page) ==
    /\ paginationShown
    /\ page \in pageButtons
    /\ handlePageChange(page)

\* handlePrevious, behind the Previous button
handlePrevious ==
    /\ paginationShown
    /\ currentPage > 1
    /\ handlePageChange(currentPage - 1)

\* handleNext, behind the Next button
handleNext ==
    /\ paginationShown
    /\ hasNextPage
    /\ handlePageChange(currentPage + 1)

\* the Retry and Try Again buttons: loadProposals(currentPage)
Retry ==
    /\ error # None
    /\ ~loading
    /\ Len(fetches) < MaxFetches
    /\ loadProposals(currentPage, fetches)
    /\ received' = <<>>
    /\ UNCHANGED <<proposals, proposalsPage, currentPage, totalPages, hasNextPage, hasLoadedInitial,
                   proposalCount>>
    /\ UNCHANGED <<tokenVars, pollVars, settingsVars>>

\* the initial load effect, once, when the component is mounted
mountEffect ==
    /\ ~hasLoadedInitial /\ ~loading /\ error = None /\ fetches = <<>>
    /\ loadProposals(1, fetches)
    /\ received' = <<>>
    /\ UNCHANGED <<proposals, proposalsPage, currentPage, totalPages, hasNextPage, hasLoadedInitial,
                   proposalCount>>
    /\ UNCHANGED <<tokenVars, pollVars, settingsVars>>

\* mutant: a short page sets hasNextPage only
lastPageKnown_never(isLastPage) == FALSE

\* if (isLastPage) setTotalPages(page)
lastPageKnown(isLastPage) == isLastPage

\* the fetch of fetches[i] resolves and loadProposals runs to its end
FetchResolves(i) ==
    LET page == fetches[i]
        length == PageLength(page)
        actualTotalPages == Max(1, page - 1)
        isLastPage == length < pageSize
    IN /\ received' = <<page, length>>
       /\ hasLoadedInitial' = TRUE
       /\ IF length = 0
          THEN /\ totalPages' = actualTotalPages
               /\ hasNextPage' = FALSE
               /\ IF page = 1
                  THEN /\ proposals' = 0
                       /\ proposalsPage' = page
                       /\ fetches' = RemoveAt(fetches, i)
                       /\ UNCHANGED <<currentPage, error>>
                  ELSE /\ currentPage' = actualTotalPages
                       /\ error' = None
                       /\ fetches' = Append(RemoveAt(fetches, i), actualTotalPages)
                       /\ UNCHANGED <<proposals, proposalsPage>>
          ELSE /\ hasNextPage' = ~isLastPage
               /\ totalPages' = IF lastPageKnown(isLastPage) THEN page ELSE totalPages
               /\ proposals' = length
               /\ proposalsPage' = page
               /\ fetches' = RemoveAt(fetches, i)
               /\ UNCHANGED <<currentPage, error>>
       /\ loading' = FALSE
       /\ UNCHANGED proposalCount
       /\ UNCHANGED <<tokenVars, pollVars, settingsVars>>

\* the request throws: the catch block sets the error
FetchRejects(i) ==
    /\ received' = <<fetches[i], 0 - 1>>
    /\ error' = "Failed to load proposals"
    /\ loading' = FALSE
    /\ fetches' = RemoveAt(fetches, i)
    /\ UNCHANGED <<proposals, proposalsPage, currentPage, totalPages, hasNextPage, hasLoadedInitial,
                   proposalCount>>
    /\ UNCHANGED <<tokenVars, pollVars, settingsVars>>

PageClick == \E page \in 1..MaxPage : PageButton(page)

FetchSettles ==
    \/ \E i \in 1..Len(fetches) : FetchResolves(i)
    \/ \E i \in 1..Len(fetches) : FetchRejects(i)

PageInit ==
    /\ PageUnmounted
    /\ PollIdle
    /\ SettingsClosed
    /\ proposalCount \in 0..MaxProposals
    /\ receipt = <<>>
    /\ result = NotRun
    /\ returned = <<>>
    /\ form = InitialForm
    /\ ComponentInit
    /\ NoCalls
    /\ WagmiInit
    /\ createTokenMutation = HookIdle
    /\ address = None
    /\ chainId = HELIOS_NETWORK_ID
    /\ deployedTokens = <<>>
    /\ lastProcessedTxHash = NoHash

PageNext == mountEffect \/ PageClick \/ handlePrevious \/ handleNext \/ Retry \/ FetchSettles

SpecPage == PageInit /\ [][PageNext]_vars

\* ------------------------------------------------------------------------
\* The receipt polling of the component's extractTokenAddressFromReceipt
\* ------------------------------------------------------------------------

\* const maxAttempts = 30
maxAttempts == 30

\* mutant: the bound is compared with > instead of >=
pollExhausted_late == attempts > maxAttempts

\* attempts >= maxAttempts
pollExhausted == attempts >= maxAttempts

pollFrame ==
    UNCHANGED <<pageVars, settingsVars, receipt, form, showPreview, deployedToken, showSuccess,
                hasProcessedSuccess, walletVars, writeVars, storageVars,
                pendingSuccess, writeCall, submitted, createTokenMutation>>

\* checkReceipt up to its await: attempts++ and the lookup is issued
checkReceipt ==
    /\ attempts' = attempts + 1
    /\ lookups' = lookups + 1
    /\ pollStatus' = "pending"
    /\ result' = NotRun
    /\ UNCHANGED returned

\* the promise rejects, or publicClient is missing: the catch of the
\* extraction returns ""
pollRejects ==
    /\ pollStatus' = "rejected"
    /\ result' = <<>>
    /\ returned' = Append(returned, result')

\* setTimeout(checkReceipt, 2000)
pollReschedules ==
    /\ pollStatus' = "scheduled"
    /\ result' = NotRun
    /\ UNCHANGED returned

\* extractTokenAddressFromReceipt(txHash) is called: without a public client
\* it throws at once, with one the first checkReceipt runs
PollStarts(publicClient) ==
    /\ pollStatus = "idle"
    /\ IF publicClient
       THEN checkReceipt
       ELSE pollRejects /\ UNCHANGED <<attempts, lookups>>
    /\ toast' = NoToast
    /\ pollFrame

\* the timer of setTimeout fires: the next checkReceipt runs
PollTimerFires ==
    /\ pollStatus = "scheduled"
    /\ checkReceipt
    /\ toast' = NoToast
    /\ pollFrame

\* getTransactionReceipt returns the receipt: resolve, and the rules are
\* applied to its logs
LookupReturnsReceipt ==
    /\ pollStatus = "pending"
    /\ pollStatus' = "resolved"
    /\ result' = extractTokenAddressFromReceipt(receipt)
    /\ returned' = Append(returned, result')
    /\ toast' = NoToast
    /\ UNCHANGED <<attempts, lookups>>
    /\ pollFrame

\* getTransactionReceipt returns nothing: reject at the bound, else try again
\* in two seconds
LookupReturnsNothing ==
    /\ pollStatus = "pending"
    /\ IF pollExhausted THEN pollRejects ELSE pollReschedules
    /\ toast' = NoToast
    /\ UNCHANGED <<attempts, lookups>>
    /\ pollFrame

\* getTransactionReceipt throws: the catch of checkReceipt does the same
LookupThrows ==
    /\ pollStatus = "pending"
    /\ IF pollExhausted THEN pollRejects ELSE pollReschedules
    /\ toast' = NoToast
    /\ UNCHANGED <<attempts, lookups>>
    /\ pollFrame

PollStart == \E publicClient \in BOOLEAN : PollStarts(publicClient)

\* the receipts the chain has for the polled hash
PollReceiptInputs == {o.logs : o \in ReceiptOutcomes \ {NoReceipt}}

PollInit ==
    /\ receipt \in PollReceiptInputs
    /\ result = NotRun
    /\ returned = <<>>
    /\ PageUnmounted
    /\ PollIdle
    /\ SettingsClosed
    /\ proposalCount = 0
    /\ form = InitialForm
    /\ ComponentInit
    /\ NoCalls
    /\ WagmiInit
    /\ createTokenMutation = HookIdle
    /\ address = None
    /\ chainId = HELIOS_NETWORK_ID
    /\ deployedTokens = <<>>
    /\ lastProcessedTxHash = NoHash

PollNext ==
    \/ PollStart
    \/ PollTimerFires
    \/ LookupReturnsReceipt
    \/ LookupReturnsNothing
    \/ LookupThrows

SpecPoll == PollInit /\ [][PollNext]_vars

\* ------------------------------------------------------------------------
\* SettingsModal and the app store
\* ------------------------------------------------------------------------

\* what is typed into the "Helios Testnet RPC" input
RpcUrlInputs ==
    {"", "http://localhost:8545", "https://rpc.example.org",
     "http://testnet1.helioschainlabs.org:8547", "not a url", DefaultRpcUrl}

settingsFrame ==
    /\ result' = NotRun
    /\ UNCHANGED <<pageVars, pollVars, receipt, returned, form, showPreview, deployedToken,
                   showSuccess, hasProcessedSuccess, walletVars, writeVars, storageVars,
                   pendingSuccess, writeCall, submitted, createTokenMutation>>

\* the parent opens the modal; the effect copies the store into the local state
OpenSettings ==
    /\ ~open
    /\ open' = TRUE
    /\ localDebugMode' = debugMode
    /\ localRpcUrl' = rpcUrl
    /\ toast' = NoToast
    /\ UNCHANGED <<debugMode, rpcUrl, persisted>>
    /\ settingsFrame

\* onClose of the Modal itself (its close control): the local state stays
CloseSettings ==
    /\ open
    /\ open' = FALSE
    /\ toast' = NoToast
    /\ UNCHANGED <<debugMode, rpcUrl, persisted, localDebugMode, localRpcUrl>>
    /\ settingsFrame

\* onChange of the debug checkbox
ToggleDebug ==
    /\ open
    /\ localDebugMode' = ~localDebugMode
    /\ localRpcUrl' = IF ~localDebugMode' THEN DefaultRpcUrl ELSE localRpcUrl
    /\ toast' = NoToast
    /\ UNCHANGED <<debugMode, rpcUrl, persisted, open>>
    /\ settingsFrame

\* onChange of the RPC input, rendered while localDebugMode
EditRpcUrl(value) ==
    /\ open
    /\ localDebugMode
    /\ localRpcUrl' = value
    /\ toast' = NoToast
    /\ UNCHANGED <<debugMode, rpcUrl, persisted, open, localDebugMode>>
    /\ settingsFrame

\* mutant: handleSave without the branch that resets the URL
rpcUrlSaved_noReset == IF localDebugMode THEN localRpcUrl ELSE rpcUrl

\* the rpcUrl of the store after handleSave: the custom URL in debug mode, the
\* default when debug mode was turned off, else what it was
rpcUrlSaved ==
    IF localDebugMode THEN localRpcUrl
    ELSE IF debugMode /\ ~localDebugMode THEN DefaultRpcUrl
    ELSE rpcUrl

\* handleSave: the store is set (the middleware persisting each set), then the
\* entry is written once more by hand and the modal closed.  toast is the last
\* toast of the step: the notice of the refresh when a setting changed.
handleSave ==
    /\ open
    /\ debugMode' = localDebugMode
    /\ rpcUrl' = rpcUrlSaved
    /\ persisted' = [partialize(debugMode', rpcUrl') EXCEPT
                        !.debugMode = localDebugMode,
                        !.rpcUrl = IF localDebugMode THEN localRpcUrl ELSE DefaultRpcUrl]
    /\ open' = FALSE
    /\ toast' = IF debugMode # localDebugMode \/ (rpcUrl # localRpcUrl /\ localDebugMode)
                THEN Toast("info", "Refreshing page to apply new settings...")
                ELSE Toast("success", "Settings saved successfully!")
    /\ UNCHANGED <<localDebugMode, localRpcUrl>>
    /\ settingsFrame

\* handleCancel
handleCancel ==
    /\ open
    /\ localDebugMode' = debugMode
    /\ localRpcUrl' = rpcUrl
    /\ open' = FALSE
    /\ toast' = NoToast
    /\ UNCHANGED <<debugMode, rpcUrl, persisted>>
    /\ settingsFrame

\* window.location.reload(), or the user reloading: the store is created
\* again and rehydrated from the entry
ReloadPage ==
    /\ debugMode' = persisted.debugMode
    /\ rpcUrl' = persisted.rpcUrl
    /\ persisted' = partialize(debugMode', rpcUrl')
    /\ open' = FALSE
    /\ localDebugMode' = debugMode'
    /\ localRpcUrl' = rpcUrl'
    /\ toast' = NoToast
    /\ settingsFrame

EditRpc == \E value \in RpcUrlInputs : EditRpcUrl(value)

SettingsInit ==
    /\ ExtractIdle
    /\ form = InitialForm
    /\ ComponentInit
    /\ NoCalls
    /\ WagmiInit
    /\ createTokenMutation = HookIdle
    /\ address = None
    /\ chainId = HELIOS_NETWORK_ID
    /\ deployedTokens = <<>>
    /\ lastProcessedTxHash = NoHash

SettingsNext ==
    \/ OpenSettings
    \/ CloseSettings
    \/ ToggleDebug
    \/ EditRpc
    \/ handleSave
    \/ handleCancel
    \/ ReloadPage

SpecSettings == SettingsInit /\ [][SettingsNext]_vars

\* ------------------------------------------------------------------------
\* Claims about the extraction (checked under SpecExtract)
\* ------------------------------------------------------------------------

\* the logs emitted by the precompile address, compared without case
FactoryLogs == {i \in 1..Len(receipt) :
                   toLowerCase(receipt[i].address) = toLowerCase(PRECOMPILE_CONTRACT_ADDRESS)}

FirstFactoryLog == CHOOSE i \in FactoryLogs : \A j \in FactoryLogs : i <= j

\* the data payload has 40 trailing characters and all are hexadecimal
HasHexTail(data) ==
    /\ Len(data) >= 40
    /\ \A k \in (Len(data) - 39)..Len(data) : data[k] \in HexChars

TailOf(data) == [k \in 1..40 |-> data[Len(data) - 40 + k]]

\* three topics, the second one zero (the shape the fallback rule looks for)
MintShaped(i) == Len(receipt[i].topics) = 3 /\ receipt[i].topics[2] = ZeroTopic

MintLogs == {i \in 1..Len(receipt) : MintShaped(i) /\ IsAddress(receipt[i].address)}

\* C9 as stated: whichever log of the precompile has a payload ending in 40
\* hexadecimal characters, the extraction returns "0x" and those characters.
C9_AnyFactoryLog ==
    result # NotRun =>
        \A i \in FactoryLogs :
            HasHexTail(receipt[i].data) =>
                result = <<"0", "x">> \o TailOf(receipt[i].data)

\* C9: when the first log emitted by the precompile address (compared without
\* case) has a payload ending in 40 hexadecimal characters, the extraction
\* returns "0x" followed by exactly those 40 characters; when its trailing
\* characters are not 40 hexadecimal characters the primary rule yields
\* nothing, and the result is empty or the address of a mint-shaped log.
C9_PrimaryRule ==
    (result # NotRun /\ FactoryLogs # {}) =>
        LET data == receipt[FirstFactoryLog].data IN
        IF HasHexTail(data)
        THEN result = <<"0", "x">> \o TailOf(data)
        ELSE result = <<>> \/ \E i \in MintLogs : result = receipt[i].address

\* a receipt with two precompile logs, the first one carrying the address,
\* from which the extraction has returned that address
C9_Witness ==
    /\ result # NotRun
    /\ Cardinality(FactoryLogs) >= 2
    /\ HasHexTail(receipt[FirstFactoryLog].data)
    /\ result = <<"0", "x">> \o TailOf(receipt[FirstFactoryLog].data)

\* C10 as stated: with no precompile log, whichever log has three topics and
\* a zero second topic, the extraction returns that log's emitting address.
C10_AnyMintLog ==
    (result # NotRun /\ FactoryLogs = {}) =>
        \A i \in 1..Len(receipt) : MintShaped(i) => result = receipt[i].address

\* C10: with no precompile log, the extraction returns the emitting address
\* of the first log, in receipt order, that has exactly three topics, a zero
\* second topic and an emitting address of the form 0x + 40 hexadecimal
\* characters.
C10_FallbackRule ==
    (result # NotRun /\ FactoryLogs = {} /\ MintLogs # {}) =>
        result = receipt[CHOOSE i \in MintLogs : \A j \in MintLogs : i <= j].address

\* a receipt without precompile log and with two mint-shaped logs of
\* different addresses, from which the extraction has returned the first
C10_Witness ==
    /\ result # NotRun
    /\ FactoryLogs = {}
    /\ \E i, j \in MintLogs : i < j /\ receipt[i].address # receipt[j].address
    /\ result \in {TokenA, TokenB}

\* ------------------------------------------------------------------------
\* Claims about the deployment lifecycle (checked under Spec, SpecReplay and
\* SpecHook)
\* ------------------------------------------------------------------------

AlphaNumeric == Digits \cup LowerLetters \cup UpperLetters

\* the validation rules of a request, as section 4.1 lists them
RuleName(r) == Trim(r.name) # <<>>

RuleSymbol(r) ==
    Trim(r.symbol) # <<>> /\ \A i \in 1..Len(Trim(r.symbol)) : Trim(r.symbol)[i] \in AlphaNumeric

RuleDenom(r) ==
    /\ Trim(r.denom) # <<>>
    /\ \A i \in 1..Len(Trim(r.denom)) :
          Trim(r.denom)[i] \in Digits \cup LowerLetters \cup {"_"}

RuleTotalSupply(r) ==
    ~isNaN(Number(r.totalSupply)) /\ ~NotPositive(Number(r.totalSupply))

RuleDecimals(r) ==
    r.decimals # <<>> /\ AllDigits(r.decimals) /\ SmallValue(r.decimals) <= 18

\* the supply can be scaled, and scaled by 10^decimals it is an amount of
\* 256 bits
RuleNoOverflow(r) ==
    /\ ~parseUnitsThrows(r.totalSupply)
    /\ (RuleTotalSupply(r) /\ RuleDecimals(r)) =>
          DigitsLeq(parseUnits(r.totalSupply, SmallValue(r.decimals)).digits,
                    UINT256_MAX_DIGITS)

RuleLogo(r) == r.logoBase64 <= MaxLogoLength

PassesEveryRule(r) ==
    /\ RuleName(r) /\ RuleSymbol(r) /\ RuleDenom(r) /\ RuleTotalSupply(r)
    /\ RuleNoOverflow(r) /\ RuleDecimals(r) /\ RuleLogo(r)

\* C1: a request that fails a validation rule (name, symbol, denom,
\* totalSupply, overflow, decimals, logo size) is never handed to
\* writeContract or sendTransaction, and no transaction handle is produced
\* for it.
C1_InvalidNeverBroadcast ==
    /\ writeCall # <<>> => PassesEveryRule(writeCall[1].request)
    /\ \A h \in 1..Len(submitted) : PassesEveryRule(submitted[h].request)

PreconditionViolated == address = None \/ chainId # HELIOS_NETWORK_ID

\* the toasts of handleDeploy once the form has passed the validation
DeployMessages ==
    { "Please connect your wallet to deploy tokens",
      "Please switch to Helios network to deploy tokens",
      "Transaction submitted, waiting for confirmation...",
      "Failed to deploy token" }

\* C2: while the form is valid and no wallet is connected or the chain id is
\* not HELIOS_NETWORK_ID, no step calls writeContract, and a call of
\* handleDeploy reports the precondition as an error and changes nothing:
\* inProgress, hasProcessedSuccess, lastProcessedTxHash and the state of the
\* write are as before.
C2_PreconditionBlocks ==
    [][ (validateForm(form) /\ PreconditionViolated) =>
            /\ ~(isPending' /\ ~isPending)
            /\ writeCall' = writeCall
            /\ form'.inProgress => form.inProgress
            /\ toast'.message \in DeployMessages =>
                  /\ toast' = Toast("error",
                                    IF address = None
                                    THEN "Please connect your wallet to deploy tokens"
                                    ELSE "Please switch to Helios network to deploy tokens")
                  /\ UNCHANGED <<form, showPreview, hasProcessedSuccess,
                                 lastProcessedTxHash, deployedTokens, hash, isPending,
                                 writeError, receiptStatus, submitted>> ]_vars

\* handleDeploy has just refused a valid form because no wallet is connected
C2_Witness ==
    /\ toast = Toast("error", "Please connect your wallet to deploy tokens")
    /\ validateForm(form)
    /\ address = None
    /\ showPreview
    /\ ~form.inProgress /\ ~isPending /\ writeCall = <<>>

\* C3: the hook leaves Idle, and calls sendTransaction, only while a wallet
\* is connected and the chain id is HELIOS_NETWORK_ID.
C3_BothPreconditions ==
    [][ ( \/ /\ createTokenMutation.step \in {"idle", "success", "error"}
             /\ createTokenMutation'.step = "simulating"
          \/ /\ createTokenMutation.step # "sending"
             /\ createTokenMutation'.step = "sending" ) =>
            (address # None /\ chainId = HELIOS_NETWORK_ID) ]_vars

\* the runs of handleSuccess in pending that hold the hash h
RunsFor(pending, h) ==
    Cardinality({i \in 1..Len(pending) : pending[i].currentHash = h})

TokensOf(h) == Cardinality({i \in 1..Len(deployedTokens) : deployedTokens[i].txHash = h})

\* C4: no two entries of deployedTokens have the same txHash, and for every
\* hash the wallet has answered at most one token is derived: the stored
\* tokens of the hash and the runs of handleSuccess still waiting for it are
\* at most one together.
C4_OneTokenPerHash ==
    /\ \A i, j \in 1..Len(deployedTokens) :
          i # j => deployedTokens[i].txHash # deployedTokens[j].txHash
    /\ \A h \in 1..Len(submitted) : TokensOf(h) + RunsFor(pendingSuccess, h) <= 1

\* two deployments of one session have both been confirmed and stored
C4_Witness ==
    /\ Len(submitted) = 2
    /\ TokensOf(1) = 1 /\ TokensOf(2) = 1
    /\ hash = 2 /\ isConfirmed

\* C5: when the receipt of the current hash is confirmed and
\* lastProcessedTxHash holds that hash, the success effect starts no run of
\* handleSuccess and leaves the flag, deployedTokens, deployedToken,
\* showSuccess and the marker as they are; as long as the marker holds the
\* confirmed hash no step starts a run for it.
C5_MarkerSkips ==
    [][ /\ (isConfirming /\ isConfirmed' /\ lastProcessedTxHash = hash) =>
              UNCHANGED <<pendingSuccess, hasProcessedSuccess, deployedTokens,
                          deployedToken, showSuccess, lastProcessedTxHash>>
        /\ (isConfirmed' /\ hash' # NoHash /\ lastProcessedTxHash' = hash') =>
              RunsFor(pendingSuccess', hash') <= RunsFor(pendingSuccess, hash') ]_vars

\* the receipt of a hash the storage marks as processed is confirmed, and the
\* effect has skipped it
C5_Witness ==
    /\ isConfirmed /\ hash # NoHash
    /\ lastProcessedTxHash = hash
    /\ ~hasProcessedSuccess
    /\ pendingSuccess = <<>>
    /\ deployedTokens = <<RestoredToken>>
    /\ deployedToken = <<>> /\ ~showSuccess

\* C6: deployedTokens never has more than 10 entries, and when it changes
\* the token of the success is its first entry, the entries that were there
\* follow in their order, and only the entries beyond the tenth are dropped.
C6_BoundedRecentFirst ==
    /\ [](Len(deployedTokens) <= HistoryCapacity)
    /\ [][ deployedTokens' # deployedTokens =>
              /\ deployedToken' # <<>>
              /\ deployedTokens'[1] = deployedToken'[1]
              /\ Len(deployedTokens') =
                    IF Len(deployedTokens) < HistoryCapacity
                    THEN Len(deployedTokens) + 1 ELSE HistoryCapacity
              /\ \A k \in 2..Len(deployedTokens') :
                    deployedTokens'[k] = deployedTokens[k - 1] ]_vars

\* a full history whose two first entries are the tokens of this session,
\* the later one first, and from which the oldest entry has been dropped
C6_Witness ==
    /\ Len(deployedTokens) = HistoryCapacity
    /\ deployedTokens[1].txHash = 2
    /\ deployedTokens[2].txHash = 1
    /\ deployedTokens[HistoryCapacity] = OldToken(HistoryCapacity - 2)

\* C7: deployedToken is set and the success modal opened only by a step whose
\* extraction returned a non-empty address; in that step the token has that
\* address, is the first entry of deployedTokens, and lastProcessedTxHash is
\* its hash.  No stored token has an empty address.
C7_SucceededHasAddress ==
    /\ [](\A i \in 1..Len(deployedTokens) : deployedTokens[i].address # <<>>)
    /\ [](deployedToken # <<>> => deployedToken[1].address # <<>>)
    /\ [][ ( \/ deployedToken' # <<>> /\ deployedToken' # deployedToken
             \/ showSuccess' /\ ~showSuccess ) =>
              /\ result' # NotRun /\ result' # <<>>
              /\ deployedToken' # <<>>
              /\ deployedToken'[1].address = result'
              /\ showSuccess'
              /\ deployedTokens'[1] = deployedToken'[1]
              /\ lastProcessedTxHash' = deployedToken'[1].txHash ]_vars

\* the step just taken extracted an address and reached Succeeded
C7_Witness ==
    /\ result # NotRun /\ result # <<>>
    /\ deployedToken # <<>> /\ showSuccess
    /\ deployedToken[1].address = result
    /\ deployedTokens[1] = deployedToken[1]
    /\ lastProcessedTxHash = deployedToken[1].txHash

\* C8: a step in which the extraction for a confirmed hash returns the empty
\* address ends the run of handleSuccess with the error toast, inProgress
\* false, and deployedToken, showSuccess, deployedTokens and
\* lastProcessedTxHash unchanged.
C8_EmptyExtractionFails ==
    [][ result' = <<>> =>
            /\ Len(pendingSuccess') = Len(pendingSuccess) - 1
            /\ toast' = Toast("error", "Failed to get deployed token address")
            /\ ~form'.inProgress
            /\ UNCHANGED <<deployedToken, showSuccess, deployedTokens,
                           lastProcessedTxHash>> ]_vars

\* the extraction for the confirmed hash has just returned the empty address
\* while the deployment was in progress
C8_Witness ==
    /\ result = <<>>
    /\ isConfirmed /\ hash # NoHash
    /\ toast = Toast("error", "Failed to get deployed token address")
    /\ ~form.inProgress
    /\ deployedToken = <<>> /\ lastProcessedTxHash = NoHash

\* ------------------------------------------------------------------------
\* Claims about receipts with unusable logs (checked under SpecMalformed)
\* ------------------------------------------------------------------------

\* some log of the precompile carries a payload ending in 40 hexadecimal
\* characters
SomeFactoryPayload ==
    \E i \in 1..Len(receipt) :
        /\ receipt[i].address # Undefined
        /\ toLowerCase(receipt[i].address) = toLowerCase(PRECOMPILE_CONTRACT_ADDRESS)
        /\ receipt[i].data # Undefined
        /\ HasHexTail(receipt[i].data)

\* some log is mint-shaped and emitted by a well-formed address
SomeMintLog ==
    \E i \in 1..Len(receipt) :
        /\ receipt[i].topics # Undefined
        /\ receipt[i].address # Undefined
        /\ MintShaped(i)
        /\ IsAddress(receipt[i].address)

\* C11: the extraction never lets an exception out, and on every receipt in
\* which no log satisfies the primary rule and no log satisfies the fallback
\* rule (no logs, a precompile log with empty or "0x" data, logs lacking a
\* property) it returns the empty string.
C11_EmptyNeverThrows ==
    result # NotRun =>
        /\ result # Thrown
        /\ (~SomeFactoryPayload /\ ~SomeMintLog) => result = <<>>

\* the extraction has returned "" on a receipt with a log lacking its address
C11_Witness ==
    /\ result = <<>>
    /\ \E i \in 1..Len(receipt) : receipt[i].address = Undefined

TimeoutToast ==
    Toast("error", "Transaction is taking longer than expected. Please check your wallet.")

\* C13 as stated: when the wait timer expires before the receipt is observed,
\* the timeout is reported while a hash awaits its receipt, and that hash is
\* retained.
C13_TimeoutKeepsHash ==
    [][ toast' = TimeoutToast => hash # NoHash /\ hash' = hash ]_vars

\* ------------------------------------------------------------------------
\* Claims about deployments in flight (checked under Spec)
\* ------------------------------------------------------------------------

\* a submission of handleDeploy is not resolved yet: the wallet has not
\* answered, or the receipt of its hash is awaited, or a run of handleSuccess
\* is still deriving the token of its hash
DeploymentInFlight ==
    \/ isPending
    \/ hash # NoHash /\ isConfirming
    \/ pendingSuccess # <<>>

\* the step is handleDeploy handing a request to writeContract
SubmissionStarts ==
    toast' = Toast("info", "Transaction submitted, waiting for confirmation...")

\* C14 as stated: while a deployment is in flight no step starts a second
\* submission.
C14_OneInFlight ==
    [][ SubmissionStarts => ~DeploymentInFlight ]_vars

\* ------------------------------------------------------------------------
\* Claims about the failures of the hook (checked under SpecHook)
\* ------------------------------------------------------------------------

\* the hook shows an error: a feedback message or an error toast
HookMessageSurfaced == createTokenMutation.feedback # "" \/ toast.kind = "error"

\* C15 as stated: when the send step fails, no message is surfaced if the
\* user declined to sign, and a message is surfaced in every other case.
C15_SoftDecline ==
    [][ (createTokenMutation.step = "sending" /\ createTokenMutation'.step = "error") =>
            (createTokenMutation'.error = "userRejected" <=> ~HookMessageSurfaced') ]_vars

\* C16: a simulation or gas estimation that fails with a "circuit breaker"
\* error ends the attempt with the feedback "Network is currently overloaded.
\* Please try again in a few moments." of status danger, and sendTransaction
\* is not called for that attempt.
C16_OverloadedMessage ==
    [][ ( /\ createTokenMutation.step \in {"simulating", "estimating"}
          /\ createTokenMutation'.error = "circuitBreaker" ) =>
            /\ createTokenMutation'.step = "error"
            /\ createTokenMutation'.feedback =
                  "Network is currently overloaded. Please try again in a few moments."
            /\ createTokenMutation'.status = "danger"
            /\ writeCall' = writeCall ]_vars

\* an attempt has ended on a circuit breaker error with nothing sent
C16_Witness ==
    /\ createTokenMutation.step = "error"
    /\ createTokenMutation.error = "circuitBreaker"
    /\ writeCall = <<>>

\* ------------------------------------------------------------------------
\* Claims about the list of proposals (checked under SpecPage)
\* ------------------------------------------------------------------------

\* C17: when the fetch of page N resolves with at least one record and fewer
\* than pageSize, totalPages is N and hasNextPage is false after the step.
C17_ShortPageIsLast ==
    [][ ( /\ received' # <<>>
          /\ received'[2] > 0
          /\ received'[2] < pageSize ) =>
            (totalPages' = received'[1] /\ ~hasNextPage') ]_vars

\* the fetch of a page after the first has resolved short and marked it last
C17_Witness ==
    /\ received # <<>>
    /\ received[1] > 1
    /\ received[2] > 0
    /\ received[2] < pageSize
    /\ totalPages = received[1]
    /\ ~hasNextPage

\* C18 as stated: whenever totalPages is known, currentPage is at most
\* totalPages.
C18_PageWithinTotal ==
    totalPages # UnknownTotal => currentPage <= totalPages

\* ------------------------------------------------------------------------
\* Claims about the amount sent (checked under SpecScale)
\* ------------------------------------------------------------------------

\* the decimals the request asks for, as a number
OwnDecimals(f) == SmallValue(Number(f.decimals).ip)

\* the fraction digits of the supply that count
SupplyFraction(f) == StripTrailingZeros(Number(f.totalSupply).fp)

\* totalSupply x 10^decimals as a string of digits, when it is an integer
ExactAmount(f) ==
    Canonical(Number(f.totalSupply).ip \o SupplyFraction(f)
                \o Rep("0", OwnDecimals(f) - Len(SupplyFraction(f))))

\* C19 as stated: for every broadcast request that passes validation, the
\* amount sent is totalSupply x 10^decimals for the decimals of the request,
\* exactly (so the product is an integer and nothing is rounded away).
C19_ExactScaling ==
    \A h \in 1..Len(submitted) :
        LET f == submitted[h].request
            sent == submitted[h].args.totalSupply
        IN validateForm(f) =>
              /\ Len(SupplyFraction(f)) <= OwnDecimals(f)
              /\ ~sent.neg
              /\ sent.digits = ExactAmount(f)

\* ------------------------------------------------------------------------
\* Claims about the order of the validation rules (checked under Spec)
\* ------------------------------------------------------------------------

\* the rules of section 4.1 by their numbers
RuleHolds(i, r) ==
    CASE i = 1 -> RuleName(r)
      [] i = 2 -> RuleSymbol(r)
      [] i = 3 -> RuleDenom(r)
      [] i = 4 -> RuleTotalSupply(r)
      [] i = 5 -> RuleNoOverflow(r)
      [] i = 6 -> RuleDecimals(r)
      [] i = 7 -> RuleLogo(r)

\* the reasons reported for each rule
RuleReasons(i) ==
    CASE i = 1 -> {"Token name is required"}
      [] i = 2 -> {"Token symbol is required",
                   "Token symbol must contain only letters and numbers"}
      [] i = 3 -> {"Token denomination is required",
                   "Denomination must contain only lowercase letters, numbers, and underscores"}
      [] i = 4 -> {"Total supply must be a valid number greater than 0"}
      [] i = 5 -> {"Total supply value is too large or invalid"}
      [] i = 6 -> {"Decimals must be an integer between 0 and 18"}
      [] i = 7 -> {"Logo image is too large. Please use a smaller image"}
      [] OTHER -> {}

ValidationReasons == UNION {RuleReasons(i) : i \in 1..7}

\* the lowest-numbered rule the request violates, 0 when it violates none
LowestViolated(r) ==
    LET violated == {i \in 1..7 : ~RuleHolds(i, r)}
    IN IF violated = {} THEN 0 ELSE CHOOSE i \in violated : \A j \in violated : i <= j

\* C20 as stated: whenever a step reports a validation reason, it is the
\* reason of the lowest-numbered rule the form violates, the rules being
\* numbered name, symbol, denom, totalSupply positive, scaling overflow,
\* decimals range, logo size.
C20_FirstFailingRuleWins ==
    [][ toast'.message \in ValidationReasons =>
            toast'.message \in RuleReasons(LowestViolated(form)) ]_vars

\* ------------------------------------------------------------------------
\* Claims about the receipt polling (checked under SpecPoll)
\* ------------------------------------------------------------------------

PollEnded == pollStatus \in {"resolved", "rejected"}

\* C21: the polling issues at most 30 getTransactionReceipt lookups, whether
\* they return nothing or throw; once the 30th has failed nothing is scheduled
\* and the extraction has ended with the empty result; a lookup that returns a
\* receipt ends the polling at once, and an ended polling issues no lookup
C21_PollingBounded ==
    /\ [](lookups <= maxAttempts)
    /\ []((lookups = maxAttempts /\ pollStatus # "pending") => PollEnded)
    /\ []((pollStatus = "rejected") => (returned = <<<<>>>>))
    /\ [][PollEnded => (PollEnded' /\ lookups' = lookups /\ pollStatus' = pollStatus)]_vars
    /\ [][(pollStatus = "pending" /\ pollStatus' = "resolved") =>
             (lookups' = lookups /\ result' = extractTokenAddressFromReceipt(receipt))]_vars

\* thirty lookups failed and the extraction ended empty
C21_Witness == pollStatus = "rejected" /\ lookups = maxAttempts /\ result = <<>>

\* ------------------------------------------------------------------------
\* Claims about the request of a deployment (checked under SpecTyping)
\* ------------------------------------------------------------------------

\* the token carries the fields of the request r as it was submitted
RecordsRequest(t, r) ==
    /\ t.name = r.name
    /\ t.symbol = r.symbol
    /\ t.denom = r.denom
    /\ t.totalSupply = r.totalSupply
    /\ t.decimals = parseInt(r.decimals).value
    /\ t.logoBase64 = r.logoBase64

\* C22: the name, symbol, denom, totalSupply, decimals and logo of a
\* DeployedToken recorded for a hash are those of the request createErc20 was
\* called with for that hash, whatever was typed into the form afterwards
C22_RequestImmutable ==
    \A k \in 1..Len(deployedTokens) :
        LET t == deployedTokens[k]
        IN  t.txHash \in 1..Len(submitted) => RecordsRequest(t, submitted[t.txHash].request)

\* ------------------------------------------------------------------------
\* Claims about the end of a deployment (checked under SpecLive)
\* ------------------------------------------------------------------------

\* C23: every deployment handleDeploy starts (inProgress true) eventually
\* reaches an outcome in which inProgress is false, by the program's own
\* steps, also when the wallet never answers or the receipt never arrives
C23_DeploymentEnds == form.inProgress ~> ~form.inProgress

\* ------------------------------------------------------------------------
\* Claims about concurrent success handlers (checked under Spec)
\* ------------------------------------------------------------------------

\* the hashes of this session that have a token in the history
RecordedHashes == {deployedTokens[k].txHash : k \in 1..Len(deployedTokens)} \cap 1..MaxDeploys

\* C24: handleSuccess reads deployedTokens, prepends and writes back in one
\* step, so whichever of two success handlers for different hashes finishes
\* first, the step of the other adds its token and loses none: the hashes
\* recorded after a success are those recorded before it and the handler's own
C24_NoLostUpdate ==
    [][ toast' = Toast("success", "Token deployed successfully!") =>
          /\ deployedTokens' # <<>>
          /\ RecordedHashes' = RecordedHashes \cup {deployedTokens'[1].txHash}
          /\ \A k \in 1..Len(deployedTokens) :
                k < HistoryCapacity =>
                   \E j \in 2..Len(deployedTokens') : deployedTokens'[j] = deployedTokens[k] ]_vars

\* the handler of the first hash finished after the handler of the second,
\* which started later: the two were under way together and both tokens are
\* recorded
C24_Witness ==
    /\ Len(deployedTokens) >= 2
    /\ deployedTokens[1].txHash = 1
    /\ deployedTokens[2].txHash = 2

\* ------------------------------------------------------------------------
\* Claims about the decimals sent (checked under SpecScale)
\* ------------------------------------------------------------------------

\* C25: for every broadcast request that passes validation, with decimals d in
\* 0..18 (0 included), the decimals argument of createErc20 is d, totalSupply
\* is scaled by 10^d, and the DeployedToken recorded for the hash has decimals d
C25_DecimalsAsRequested ==
    \A h \in 1..Len(submitted) :
        LET f == submitted[h].request
            args == submitted[h].args
        IN validateForm(f) =>
              /\ args.decimals = OwnDecimals(f)
              /\ args.totalSupply = parseUnits(f.totalSupply, OwnDecimals(f))
              /\ \A k \in 1..Len(deployedTokens) :
                    deployedTokens[k].txHash = h =>
                       deployedTokens[k].decimals = args.decimals

\* ------------------------------------------------------------------------
\* Claims about the form of the extracted address (checked under SpecExtract)
\* ------------------------------------------------------------------------

HexDigit(c) ==
    c \in {"0", "1", "2", "3", "4", "5", "6", "7", "8", "9",
           "a", "b", "c", "d", "e", "f", "A", "B", "C", "D", "E", "F"}

\* "0x" followed by exactly 40 hexadecimal characters
WellFormedAddress(a) ==
    /\ Len(a) = 42
    /\ SubSeq(a, 1, 2) = <<"0", "x">>
    /\ \A i \in 3..42 : HexDigit(a[i])

\* C26: whatever the receipt, the extraction returns the empty string or "0x"
\* followed by exactly 40 hexadecimal characters, from either rule
C26_ResultWellFormed ==
    result # NotRun => (result = <<>> \/ WellFormedAddress(result))

\* the factory log's payload is not hexadecimal and was turned down; the
\* fallback rule gave the address
C26_Witness ==
    /\ result = TokenA
    /\ \E i \in 1..Len(receipt) :
          /\ receipt[i].address = PRECOMPILE_CONTRACT_ADDRESS
          /\ receipt[i].data = PaddedData(Rep("z", 40))

\* ------------------------------------------------------------------------
\* Claims about the precedence of the two rules (checked under SpecExtract)
\* ------------------------------------------------------------------------

\* the primary rule has a result: the first log of the factory address
\* carries 40 trailing hexadecimal characters
PrimaryApplies == FactoryLogs # {} /\ HasHexTail(receipt[FirstFactoryLog].data)

ShapedLogs == {i \in 1..Len(receipt) : MintShaped(i)}

FirstOf(S) == CHOOSE i \in S : \A j \in S : i <= j

\* C27 as stated: the primary result wins whatever the order of the logs, only
\* the first factory log is examined, and otherwise the result is the emitting
\* address of the first log with three topics and a zero second topic.
C27_FirstShapedLog ==
    result # NotRun =>
        IF PrimaryApplies
        THEN result = <<"0", "x">> \o TailOf(receipt[FirstFactoryLog].data)
        ELSE ShapedLogs # {} => result = receipt[FirstOf(ShapedLogs)].address

\* C27: when the first log of the factory address carries an address the
\* result is that address, wherever the log stands and whatever mint-shaped
\* logs the receipt has; no later factory log is examined; otherwise the
\* result is the emitting address of the first log, in receipt order, that has
\* three topics, a zero second topic and an emitting address of the form
\* 0x + 40 hexadecimal characters, and empty when there is no such log.
C27_RulePrecedence ==
    result # NotRun =>
        IF PrimaryApplies
        THEN result = <<"0", "x">> \o TailOf(receipt[FirstFactoryLog].data)
        ELSE IF MintLogs # {}
             THEN result = receipt[FirstOf(MintLogs)].address
             ELSE result = <<>>

\* both rules have a result, the mint-shaped log stands before the factory
\* log, and the factory log's payload was returned
C27_Witness ==
    /\ result # NotRun
    /\ PrimaryApplies
    /\ MintLogs # {}
    /\ FirstOf(MintLogs) < FirstFactoryLog
    /\ result = <<"0", "x">> \o TailOf(receipt[FirstFactoryLog].data)
    /\ result # receipt[FirstOf(MintLogs)].address

\* ------------------------------------------------------------------------
\* Claims about the last page (checked under SpecPage)
\* ------------------------------------------------------------------------

\* C28: whenever no load is under way, totalPages is known and currentPage is
\* totalPages, hasNextPage is false, also after an empty page beyond the end
\* made the component reload the last valid page
C28_NextOffOnLastPage ==
    (~loading /\ totalPages # UnknownTotal /\ currentPage = totalPages) => ~hasNextPage

\* ------------------------------------------------------------------------
\* Claims about the records shown (checked under SpecPage)
\* ------------------------------------------------------------------------

\* C29: once the list has loaded, whenever loading is false no fetch is in
\* flight and the records shown are those fetched for currentPage, whatever
\* page changes and fetch outcomes (success, empty, error, reload of the last
\* valid page) came before
C29_ShownIsCurrentPage ==
    (hasLoadedInitial /\ ~loading) =>
        /\ fetches = <<>>
        /\ proposalsPage = currentPage
        /\ proposals = PageLength(currentPage)

\* ------------------------------------------------------------------------
\* Claims about the settings (checked under SpecSettings)
\* ------------------------------------------------------------------------

\* C30: whatever was opened, toggled, typed, saved or cancelled, while
\* debugMode is false the rpcUrl of the store and the rpcUrl of the persisted
\* entry are the default URL, and Cancel leaves debugMode and rpcUrl of the
\* store as they were
C30_DefaultUrlOutsideDebug ==
    /\ [](~debugMode => rpcUrl = "https://testnet1.helioschainlabs.org")
    /\ [](~debugMode => persisted.rpcUrl = "https://testnet1.helioschainlabs.org")
    /\ [][(open /\ ~open' /\ toast' = NoToast) => UNCHANGED <<debugMode, rpcUrl>>]_vars

\* a custom URL had been saved in debug mode, and debug mode has been saved
\* off: the store and the entry are back on the default URL
C30_Witness ==
    /\ ~debugMode
    /\ rpcUrl = DefaultRpcUrl
    /\ persisted = partialize(FALSE, DefaultRpcUrl)
    /\ toast = Toast("info", "Refreshing page to apply new settings...")
    /\ localDebugMode = FALSE

====
